---- MODULE Spec2Model ----
(***************************************************************************)
(* A model of the AudioProcessor worklet of Quick-Sonic-Worklet            *)
(* (src/src/AudioProcessor.worklet.ts): the message handler installed on   *)
(* the processor's port and the process() render callback.                 *)
(*                                                                         *)
(* Numbers.  The code computes in IEEE floating point.  The model keeps    *)
(* every quantity as an integer in a fixed unit:                           *)
(*   - sample amplitudes, gains, depths and feedbacks in units of 1/ONE;   *)
(*   - read positions and playback rates in units of 1/PosDen sample;      *)
(*   - LFO phases in units of 1/TURN of a full turn (2*pi).                *)
(* The inputs that are enumerated are exactly representable in these       *)
(* units; products are rounded toward zero by Mul.                         *)
(*                                                                         *)
(* Objects.  A JavaScript object is a record whose DOMAIN is the set of    *)
(* properties that are present; a Map is a function whose DOMAIN is the    *)
(* set of keys; a Float32Array is kept sparsely as its length and the      *)
(* function from the indices of its non-zero elements to their values.     *)
(***************************************************************************)
EXTENDS Integers, Sequences, FiniteSets, TLC

\* ------------------------------------------------------------------ units

ONE == 1000
PosDen == 2
TURN == 1000

\* The sample rate of the AudioWorkletGlobalScope (a host constant).
sampleRate == 1000

\* ---------------------------------------------------------------- helpers

Abs(x) == IF x < 0 THEN -x ELSE x

Sign(x) == IF x > 0 THEN 1 ELSE IF x < 0 THEN -1 ELSE 0

Min(a, b) == IF a < b THEN a ELSE b

Max(a, b) == IF a > b THEN a ELSE b

\* Integer quotient rounded toward zero.
DivT(a, b) == Sign(a) * Sign(b) * (Abs(a) \div Abs(b))

\* Product of two fixed-point numbers of unit 1/ONE.
Mul(a, b) == DivT(a * b, ONE)

\* The decimal literal n/d in units of 1/ONE.
Frac(n, d) == (n * ONE) \div d

\* JavaScript's % on non-NaN operands: the remainder has the dividend's sign.
JsRem(a, b) == Sign(a) * (Abs(a) % Abs(b))

\* Math.round(a / b) for b > 0: the nearest integer, halves toward +infinity.
RoundDiv(a, b) == (2 * a + b) \div (2 * b)

\* Math.floor(a / b) for b > 0.
FloorDiv(a, b) == a \div b

\* F applied to the value of e (e is evaluated once).
Strict(e, F(_)) == CHOOSE r \in {F(v) : v \in {e}} : TRUE

\* The largest r with r * r <= n, for 0 <= n < 2^30.
ISqrt(n) == CHOOSE r \in 0..32767 : r * r <= n /\ n < (r + 1) * (r + 1)

\* Map.delete(key)
MapDelete(m, k) == [j \in DOMAIN m \ {k} |-> m[j]]

\* Map.set(key, value)
MapSet(m, k, v) == [j \in DOMAIN m \cup {k} |-> IF j = k THEN v ELSE m[j]]

\* obj.f for a property that may be absent (undefined is given as d)
Prop(obj, f, d) == IF f \in DOMAIN obj THEN obj[f] ELSE d

\* JavaScript truthiness of an optional numeric property
Truthy(obj, f) == f \in DOMAIN obj /\ obj[f] # 0

\* new Float32Array(n)
NewBuffer(n) == [len |-> n, nz |-> [i \in {} |-> 0]]

\* buffer[i]
BufGet(b, i) == IF i \in DOMAIN b.nz THEN b.nz[i] ELSE 0

\* buffer[i] = v
BufSet(b, i, v) ==
    [b EXCEPT !.nz = IF v = 0
                     THEN [j \in DOMAIN b.nz \ {i} |-> b.nz[j]]
                     ELSE [j \in DOMAIN b.nz \cup {i} |-> IF j = i THEN v ELSE b.nz[j]]]

\* a block buffer of n zeros
Zeros(n) == [i \in 1..n |-> 0]

\* ----------------------------------------------------- message payloads

\* data: null
Null == [null |-> TRUE]

IsNull(d) == "null" \in DOMAIN d

\* data: a number
Num(n) == [num |-> n]

\* data: an array
Arr(items) == [array |-> items]

\* Array.isArray(data)
IsArray(d) == "array" \in DOMAIN d

\* { type, key, data }
Msg(t, k, d) == [type |-> t, key |-> k, data |-> d]

\* isVisualizerBand(obj)
isVisualizerBand(obj) ==
    /\ ~IsNull(obj)
    /\ "startFrequency" \in DOMAIN obj
    /\ "endFrequency" \in DOMAIN obj

\* Number(data)
NumberOf(d) == IF "num" \in DOMAIN d THEN d.num ELSE 0

\* data: a number with a fractional part (n + 1/2)
Half(n) == [num |-> n, fraction |-> TRUE]

\* Number.isInteger(Number(data))
IsInteger(d) == "num" \in DOMAIN d /\ "fraction" \notin DOMAIN d

\* ------------------------------------------------------ processor fields

MAX_DELAY_SAMPLES == sampleRate * 2

MAX_CHORUS_SAMPLES == RoundDiv(sampleRate * 5, 100)

COMB_DELAYS == <<1557, 1617, 1491, 1422>>

ALLPASS_DELAYS == <<225, 556, 441, 341>>

maxLatencySamples == sampleRate

Band(s, e) == [startFrequency |-> s, endFrequency |-> e]

DefaultVisualizerBands ==
    << Band(20, 250), Band(250, 500), Band(500, 2000),
       Band(2000, 4000), Band(4000, 6000), Band(6000, 20000) >>

EQBand(f, g) == [frequency |-> f, gain |-> g]

initialSettings ==
    [ eq |-> << EQBand(60, 0), EQBand(170, 0), EQBand(310, 0), EQBand(600, 0),
                EQBand(1000, 0), EQBand(3000, 0), EQBand(6000, 0), EQBand(12000, 0) >>,
      modulation |-> [type |-> "chorus", depth |-> 0, rate |-> 0],
      effects |-> [delay |-> 0, reverb |-> 0, echo |-> 0, loop |-> FALSE],
      drive |-> [distortion |-> 0, overdrive |-> 0, fuzz |-> 0],
      dynamics |-> [threshold |-> -24, ratio |-> 4] ]

EmptyMap == [k \in {} |-> 0]

\* The processor object after its constructor.
NewAudioProcessor ==
    [ tracks |-> EmptyMap,
      masterVolume |-> ONE \div 2,
      eqSettings |-> EmptyMap,
      modulationSettings |-> EmptyMap,
      effectsSettings |-> EmptyMap,
      driveSettings |-> EmptyMap,
      dynamicsSettings |-> EmptyMap,
      normalizeEnabled |-> FALSE,
      latencySamples |-> 0,
      delayBufferL |-> NewBuffer(maxLatencySamples),
      delayBufferR |-> NewBuffer(maxLatencySamples),
      delayBufferIndex |-> 0,
      delayEffectBuffers |-> EmptyMap,
      delayEffectWriteIndices |-> EmptyMap,
      echoEffectBuffers |-> EmptyMap,
      echoEffectWriteIndices |-> EmptyMap,
      chorusBuffers |-> EmptyMap,
      chorusWriteIndices |-> EmptyMap,
      reverbCombBuffers |-> EmptyMap,
      reverbCombIndices |-> EmptyMap,
      reverbAllpassBuffers |-> EmptyMap,
      reverbAllpassIndices |-> EmptyMap,
      modulationPhases |-> EmptyMap,
      visualizerBands |-> DefaultVisualizerBands,
      visualizerBufferSize |-> 128,
      visualizerSampleBuffer |-> NewBuffer(128),
      visualizerSampleBufferIndex |-> 0 ]

\* The names of the per-track settings Maps and of the per-track effect Maps.
SettingsMaps ==
    {"eqSettings", "modulationSettings", "effectsSettings", "driveSettings",
     "dynamicsSettings"}

EffectMaps ==
    {"delayEffectBuffers", "delayEffectWriteIndices", "echoEffectBuffers",
     "echoEffectWriteIndices", "chorusBuffers", "chorusWriteIndices",
     "reverbCombBuffers", "reverbCombIndices", "reverbAllpassBuffers",
     "reverbAllpassIndices", "modulationPhases"}

\* ------------------------------------------------- effect buffer management

\* initializeEffectBuffers doing nothing.
initializeEffectBuffersNot(p, trackKey) == p

\* initializeEffectBuffers allocating the buffers without resetting the write
\* indices and the LFO phase of a key that has them already.
initializeEffectBuffersKeepsIndices(p, trackKey) ==
    [p EXCEPT
       !.delayEffectBuffers = MapSet(@, trackKey, NewBuffer(MAX_DELAY_SAMPLES)),
       !.delayEffectWriteIndices = MapSet(@, trackKey, Prop(@, trackKey, 0)),
       !.echoEffectBuffers = MapSet(@, trackKey, NewBuffer(MAX_DELAY_SAMPLES)),
       !.echoEffectWriteIndices = MapSet(@, trackKey, Prop(@, trackKey, 0)),
       !.chorusBuffers = MapSet(@, trackKey, NewBuffer(MAX_CHORUS_SAMPLES)),
       !.chorusWriteIndices = MapSet(@, trackKey, Prop(@, trackKey, 0)),
       !.reverbCombBuffers =
           MapSet(@, trackKey, [c \in DOMAIN COMB_DELAYS |-> NewBuffer(COMB_DELAYS[c] + 1)]),
       !.reverbCombIndices = MapSet(@, trackKey, [c \in DOMAIN COMB_DELAYS |-> 0]),
       !.reverbAllpassBuffers =
           MapSet(@, trackKey,
                  [a \in DOMAIN ALLPASS_DELAYS |-> NewBuffer(ALLPASS_DELAYS[a] + 1)]),
       !.reverbAllpassIndices = MapSet(@, trackKey, [a \in DOMAIN ALLPASS_DELAYS |-> 0]),
       !.modulationPhases = MapSet(@, trackKey, Prop(@, trackKey, 0))]

initializeEffectBuffers(p, trackKey) ==
    [p EXCEPT
       !.delayEffectBuffers = MapSet(@, trackKey, NewBuffer(MAX_DELAY_SAMPLES)),
       !.delayEffectWriteIndices = MapSet(@, trackKey, 0),
       !.echoEffectBuffers = MapSet(@, trackKey, NewBuffer(MAX_DELAY_SAMPLES)),
       !.echoEffectWriteIndices = MapSet(@, trackKey, 0),
       !.chorusBuffers = MapSet(@, trackKey, NewBuffer(MAX_CHORUS_SAMPLES)),
       !.chorusWriteIndices = MapSet(@, trackKey, 0),
       !.reverbCombBuffers =
           MapSet(@, trackKey, [c \in DOMAIN COMB_DELAYS |-> NewBuffer(COMB_DELAYS[c] + 1)]),
       !.reverbCombIndices = MapSet(@, trackKey, [c \in DOMAIN COMB_DELAYS |-> 0]),
       !.reverbAllpassBuffers =
           MapSet(@, trackKey,
                  [a \in DOMAIN ALLPASS_DELAYS |-> NewBuffer(ALLPASS_DELAYS[a] + 1)]),
       !.reverbAllpassIndices = MapSet(@, trackKey, [a \in DOMAIN ALLPASS_DELAYS |-> 0]),
       !.modulationPhases = MapSet(@, trackKey, 0)]

\* clearEffectBuffers leaving the LFO phase of the key behind.
clearEffectBuffersKeepsPhase(p, trackKey) ==
    [p EXCEPT
       !.delayEffectBuffers = MapDelete(@, trackKey),
       !.delayEffectWriteIndices = MapDelete(@, trackKey),
       !.echoEffectBuffers = MapDelete(@, trackKey),
       !.echoEffectWriteIndices = MapDelete(@, trackKey),
       !.chorusBuffers = MapDelete(@, trackKey),
       !.chorusWriteIndices = MapDelete(@, trackKey),
       !.reverbCombBuffers = MapDelete(@, trackKey),
       !.reverbCombIndices = MapDelete(@, trackKey),
       !.reverbAllpassBuffers = MapDelete(@, trackKey),
       !.reverbAllpassIndices = MapDelete(@, trackKey)]

clearEffectBuffers(p, trackKey) ==
    [p EXCEPT
       !.delayEffectBuffers = MapDelete(@, trackKey),
       !.delayEffectWriteIndices = MapDelete(@, trackKey),
       !.echoEffectBuffers = MapDelete(@, trackKey),
       !.echoEffectWriteIndices = MapDelete(@, trackKey),
       !.chorusBuffers = MapDelete(@, trackKey),
       !.chorusWriteIndices = MapDelete(@, trackKey),
       !.reverbCombBuffers = MapDelete(@, trackKey),
       !.reverbCombIndices = MapDelete(@, trackKey),
       !.reverbAllpassBuffers = MapDelete(@, trackKey),
       !.reverbAllpassIndices = MapDelete(@, trackKey),
       !.modulationPhases = MapDelete(@, trackKey)]

\* ------------------------------------------------------- port.onmessage

\* case 'play'
OnPlay(p, key, data) ==
    IF ~IsNull(data) /\ "buffer" \in DOMAIN data
    THEN initializeEffectBuffers(
           [p EXCEPT
              !.tracks = MapSet(@, key,
                  [ data |-> data.buffer,
                    readIndex |-> 0,
                    isPlaying |-> TRUE,
                    loop |-> data.loop,
                    playbackRate |-> Prop(data, "playbackRate", PosDen) ]),
              !.eqSettings = MapSet(@, key, initialSettings.eq),
              !.modulationSettings = MapSet(@, key, initialSettings.modulation),
              !.effectsSettings = MapSet(@, key, initialSettings.effects),
              !.driveSettings = MapSet(@, key, initialSettings.drive),
              !.dynamicsSettings = MapSet(@, key, initialSettings.dynamics)],
           key)
    ELSE p

\* case 'stop' stopping every track.
OnStopAll(p, key) ==
    IF key \in DOMAIN p.tracks
    THEN [p EXCEPT !.tracks = [k \in DOMAIN @ |-> [@[k] EXCEPT !.isPlaying = FALSE]]]
    ELSE p

\* case 'stop'
OnStop(p, key) ==
    IF key \in DOMAIN p.tracks
    THEN [p EXCEPT !.tracks[key].isPlaying = FALSE]
    ELSE p

\* case 'clear' stopping the track instead of deleting it.
OnClearKeepsTrack(p, key) ==
    clearEffectBuffers(
      [p EXCEPT
         !.tracks = IF key \in DOMAIN @ THEN [@ EXCEPT ![key].isPlaying = FALSE] ELSE @,
         !.eqSettings = MapDelete(@, key),
         !.modulationSettings = MapDelete(@, key),
         !.effectsSettings = MapDelete(@, key),
         !.driveSettings = MapDelete(@, key),
         !.dynamicsSettings = MapDelete(@, key)],
      key)

\* case 'clear'
OnClear(p, key) ==
    clearEffectBuffers(
      [p EXCEPT
         !.tracks = MapDelete(@, key),
         !.eqSettings = MapDelete(@, key),
         !.modulationSettings = MapDelete(@, key),
         !.effectsSettings = MapDelete(@, key),
         !.driveSettings = MapDelete(@, key),
         !.dynamicsSettings = MapDelete(@, key)],
      key)

\* case 'adjustEQ'
OnAdjustEQ(p, key, data) ==
    IF IsArray(data)
    THEN [p EXCEPT !.eqSettings = MapSet(@, key, data.array)]
    ELSE p

\* case 'adjustModulation'
OnAdjustModulation(p, key, data) ==
    [p EXCEPT !.modulationSettings = MapSet(@, key, data)]

\* case 'adjustEffects' setting a stopped track of this key playing again.
OnAdjustEffectsRestarts(p, key, data) ==
    [p EXCEPT !.effectsSettings = MapSet(@, key, data),
              !.tracks = IF key \in DOMAIN @ THEN [@ EXCEPT ![key].isPlaying = TRUE] ELSE @]

\* case 'adjustEffects'
OnAdjustEffects(p, key, data) ==
    [p EXCEPT !.effectsSettings = MapSet(@, key, data)]

\* case 'adjustDrive'
OnAdjustDrive(p, key, data) ==
    [p EXCEPT !.driveSettings = MapSet(@, key, data)]

\* case 'adjustDynamics'
OnAdjustDynamics(p, key, data) ==
    [p EXCEPT !.dynamicsSettings = MapSet(@, key, data)]

\* case 'adjustNormalize': Boolean(data)
OnAdjustNormalize(p, data) ==
    [p EXCEPT !.normalizeEnabled =
        IF "bool" \in DOMAIN data THEN data.bool
        ELSE IF "num" \in DOMAIN data THEN data.num # 0
        ELSE ~IsNull(data)]

\* case 'adjustLatency' taking the latency for the delay effect of the tracks
\* and restarting their delay lines.
OnAdjustLatencyOfTracks(p, data) ==
    [p EXCEPT !.latencySamples = RoundDiv(NumberOf(data) * sampleRate, 1000),
              !.delayEffectWriteIndices = [k \in DOMAIN @ |-> 0]]

\* case 'adjustLatency' (data in milliseconds)
OnAdjustLatency(p, data) ==
    [p EXCEPT !.latencySamples = RoundDiv(NumberOf(data) * sampleRate, 1000)]

\* Math.round(Number(data)): n + 1/2 is rounded up.
RoundOf(d) == IF "fraction" \in DOMAIN d THEN d.num + 1 ELSE NumberOf(d)

\* case 'adjustLatencySamples'
OnAdjustLatencySamples(p, data) ==
    [p EXCEPT !.latencySamples = Min(Max(0, RoundOf(data)), maxLatencySamples)]

\* case 'setVisualizerBands'
OnSetVisualizerBands(p, data) ==
    IF IsArray(data) /\ \A i \in DOMAIN data.array : isVisualizerBand(data.array[i])
    THEN [p EXCEPT !.visualizerBands = data.array]
    ELSE p

\* case 'setVisualizerBufferSize' applying any number.
OnSetVisualizerBufferSizeUnchecked(p, data) ==
    LET newSize == NumberOf(data) IN
    IF "num" \in DOMAIN data
    THEN [p EXCEPT !.visualizerBufferSize = newSize,
                   !.visualizerSampleBuffer = NewBuffer(newSize),
                   !.visualizerSampleBufferIndex = 0]
    ELSE p

\* case 'setVisualizerBufferSize'
OnSetVisualizerBufferSize(p, data) ==
    LET newSize == NumberOf(data) IN
    IF IsInteger(data) /\ newSize >= 32 /\ newSize <= 1024
    THEN [p EXCEPT !.visualizerBufferSize = newSize,
                   !.visualizerSampleBuffer = NewBuffer(newSize),
                   !.visualizerSampleBufferIndex = 0]
    ELSE p

\* The handler: the switch on the message type; a type with no case is ignored.
OnMessage(p, m) ==
    CASE m.type = "play" -> OnPlay(p, m.key, m.data)
      [] m.type = "stop" -> OnStop(p, m.key)
      [] m.type = "clear" -> OnClear(p, m.key)
      [] m.type = "adjustEQ" -> OnAdjustEQ(p, m.key, m.data)
      [] m.type = "adjustModulation" -> OnAdjustModulation(p, m.key, m.data)
      [] m.type = "adjustEffects" -> OnAdjustEffects(p, m.key, m.data)
      [] m.type = "adjustDrive" -> OnAdjustDrive(p, m.key, m.data)
      [] m.type = "adjustDynamics" -> OnAdjustDynamics(p, m.key, m.data)
      [] m.type = "adjustNormalize" -> OnAdjustNormalize(p, m.data)
      [] m.type = "adjustLatency" -> OnAdjustLatency(p, m.data)
      [] m.type = "adjustLatencySamples" -> OnAdjustLatencySamples(p, m.data)
      [] m.type = "setVisualizerBands" -> OnSetVisualizerBands(p, m.data)
      [] m.type = "setVisualizerBufferSize" -> OnSetVisualizerBufferSize(p, m.data)
      [] OTHER -> p

\* ------------------------------------------------------ numeric functions

\* Math.sin of a phase given in 1/TURN turns, in units of 1/ONE (Bhaskara's
\* rational approximation; exact at the multiples of a quarter turn).
Sin(phase) ==
    LET q == phase % TURN
        t == IF q <= TURN \div 2 THEN q ELSE q - TURN \div 2
        u == t * (TURN \div 2 - t)
        h == DivT(ONE * 16 * u, 5 * (TURN \div 2) * (TURN \div 2) - 4 * u)
    IN  IF q <= TURN \div 2 THEN h ELSE -h

\* (2 / Math.PI) * Math.asin(Math.sin(phase)): the triangle wave of the phase.
TriangleOfPhase(phase) ==
    LET q == phase % TURN
        quarter == TURN \div 4
    IN  IF q <= quarter THEN DivT(q * ONE, quarter)
        ELSE IF q <= 3 * quarter THEN DivT((2 * quarter - q) * ONE, quarter)
        ELSE DivT((q - TURN) * ONE, quarter)

\* Math.pow(10, dB / 20) in units of 1/ONE, for the decibel values enumerated.
DbToLinear(dB) ==
    CASE dB = 0 -> ONE
      [] dB = 3 -> 1413
      [] dB = -3 -> 708
      [] dB = 6 -> 1995
      [] dB = -6 -> 501
      [] dB = 12 -> 3981
      [] dB = -12 -> 251
      [] dB = 20 -> 10 * ONE
      [] dB = -20 -> ONE \div 10
      [] dB = -24 -> 63

\* Math.tanh(z), z in units of 1/ONE (Pade approximation, saturating at |z| >= 3).
Tanh(z) ==
    IF Abs(z) >= 3 * ONE THEN Sign(z) * ONE
    ELSE LET z2 == Mul(z, z) IN DivT(z * (27 * ONE + z2), 27 * ONE + 9 * z2)

\* Math.exp(-a) for a >= 0, in units of 1/ONE (reciprocal of the cubic Taylor
\* polynomial of exp(a); 0 from a = 10 on).
ExpNeg(a) ==
    IF a >= 10 * ONE THEN 0
    ELSE LET a2 == Mul(a, a)
             a3 == Mul(a2, a)
         IN  DivT(ONE * ONE, ONE + a + a2 \div 2 + a3 \div 6)

\* x ^ (1 - 1/ratio) for 0 <= x <= 1 in units of 1/ONE, ratio in {1, 2, 4}.
PowCompress(x, ratio) ==
    CASE ratio = 1 -> ONE
      [] ratio = 2 -> ISqrt(x * ONE)
      [] ratio = 4 -> ISqrt(ISqrt(DivT(x * x, ONE) * x) * ONE)

\* computeAlpha(fc): dt / (RC + dt) = 2*pi*fc / (2*pi*fc + fs), with pi = 355/113.
computeAlpha(fc) == (710 * fc) \div ((710 * fc + 113 * sampleRate) \div ONE)

\* ------------------------------------------------------------ track synthesis

\* The wraparound leaving the position as it is.
WrapPositionNot(readIndex, len) == readIndex

\* The wraparound by one subtraction of the length.
WrapPositionOnce(readIndex, len) ==
    IF readIndex >= len * PosDen THEN readIndex - len * PosDen ELSE readIndex

\* track.readIndex %= track.data.length
WrapPosition(readIndex, len) == JsRem(readIndex, len * PosDen)

\* The end of the samples leaving the track playing.
StopTrackNot(track) == track

\* track.isPlaying = false
StopTrack(track) == [track EXCEPT !.isPlaying = FALSE]

\* data[i] of a Float32Array (an index outside it reads as 0 here; the inputs
\* enumerated never take that branch).
Elem(data, i) == IF i + 1 \in DOMAIN data THEN data[i + 1] ELSE 0

\* The sample at or before position pos, without interpolation.
InterpolateNearest(data, pos) == Elem(data, FloorDiv(pos, PosDen))

\* The linear interpolation of data at position pos.
Interpolate(data, pos) ==
    LET i0 == FloorDiv(pos, PosDen)
        frac == pos - i0 * PosDen
        sample1 == Elem(data, i0)
        sample2 == IF i0 + 1 < Len(data) THEN Elem(data, i0 + 1) ELSE sample1
    IN  DivT(sample1 * (PosDen - frac) + sample2 * frac, PosDen)

\* One frame of the linear-interpolation loop of process().  s.i: the frame;
\* s.reads: the positions at which samples were read; s.wraps: the positions
\* right after each wraparound; s.n: the number of frames synthesised;
\* s.done: the loop was left by break.
SynthStep(s) ==
    LET track == s.track
        len == Len(track.data)
        atEnd == track.readIndex >= (len - 1) * PosDen
        pos == IF atEnd THEN WrapPosition(track.readIndex, len) ELSE track.readIndex
    IN  IF atEnd /\ ~track.loop
        THEN [s EXCEPT !.track = StopTrack(track), !.done = TRUE]
        ELSE [s EXCEPT !.track.readIndex = pos + track.playbackRate,
                       !.buf[s.i] = Interpolate(track.data, pos),
                       !.i = s.i + 1,
                       !.n = s.n + 1,
                       !.reads = s.reads \cup {pos},
                       !.wraps = IF atEnd THEN s.wraps \cup {pos} ELSE s.wraps]

RECURSIVE SynthLoop(_)
SynthLoop(s) ==
    IF s.done \/ s.i > Len(s.buf) THEN s ELSE Strict(SynthStep(s), SynthLoop)

Synthesize(track, N) ==
    SynthLoop([track |-> track, buf |-> Zeros(N), i |-> 1, n |-> 0,
               reads |-> {}, wraps |-> {}, done |-> FALSE])

\* ------------------------------------------------------------- equalizer

\* One sample of one band's loop.
EQSample(s) ==
    LET st == s.state + Mul(s.alpha, s.buffer[s.i] - s.state)
    IN  [s EXCEPT !.state = st,
                  !.buffer[s.i] = s.buffer[s.i] + Mul(st, s.gainFactor),
                  !.i = s.i + 1]

RECURSIVE EQBandLoop(_)
EQBandLoop(s) ==
    IF s.i > Len(s.buffer) THEN s.buffer ELSE Strict(EQSample(s), EQBandLoop)

\* The loop over eqBands filtering with a band whatever its gain.
EQBandStepAlways(s) ==
    LET band == s.eqBands[s.b]
    IN  [s EXCEPT !.b = s.b + 1,
                  !.buffer = EQBandLoop([buffer |-> s.buffer, i |-> 1, state |-> 0,
                                         alpha |-> computeAlpha(band.frequency),
                                         gainFactor |-> DbToLinear(band.gain)])]

\* One band of the loop over eqBands.
EQBandStep(s) ==
    LET band == s.eqBands[s.b]
    IN  [s EXCEPT !.b = s.b + 1,
                  !.buffer = IF band.gain # 0
                             THEN EQBandLoop([buffer |-> s.buffer, i |-> 1, state |-> 0,
                                              alpha |-> computeAlpha(band.frequency),
                                              gainFactor |-> DbToLinear(band.gain)])
                             ELSE s.buffer]

RECURSIVE EQLoop(_)
EQLoop(s) ==
    IF s.b > Len(s.eqBands) THEN s.buffer ELSE Strict(EQBandStep(s), EQLoop)

applyEQInPlace(buffer, eqBands) ==
    EQLoop([buffer |-> buffer, eqBands |-> eqBands, b |-> 1])

\* ------------------------------------------------------------- modulator

\* The chorus read index without the wraparound.
ChorusReadIndexUnwrapped(chorusWriteIndex, delaySamples) ==
    chorusWriteIndex - delaySamples

\* Math.floor((chorusWriteIndex - delaySamples + MAX_CHORUS_SAMPLES)
\*            % MAX_CHORUS_SAMPLES)
ChorusReadIndex(chorusWriteIndex, delaySamples) ==
    FloorDiv(JsRem(chorusWriteIndex - delaySamples + MAX_CHORUS_SAMPLES,
                   MAX_CHORUS_SAMPLES), 1)

\* One sample of the switch on modulation.type.  has: the track has a chorus
\* buffer.  The result is the processed sample, the chorus buffer state and
\* the indices at which the chorus buffer was read.
ModulateSample(type, depth, phase, x, cb, cw, has) ==
    LET lfo == Sin(phase)
        half == DivT(ONE + lfo, 2)
        Read(delaySamples) == ChorusReadIndex(cw, delaySamples)
        Adv(w) == (w + 1) % MAX_CHORUS_SAMPLES
        Keep(y) == [y |-> y, cb |-> cb, cw |-> cw, reads |-> {}]
    IN
    CASE type = "chorus" ->
           IF has
           THEN LET baseDelaySamples == RoundDiv(15 * sampleRate, 1000)
                    modulationDelaySamples ==
                        RoundDiv(sampleRate * Mul(lfo, depth), 100 * ONE)
                    delaySamples == Max(1, baseDelaySamples + modulationDelaySamples)
                    delayedSample == BufGet(cb, Read(delaySamples))
                IN  [y |-> Mul(x, Frac(7, 10))
                           + Mul(Mul(delayedSample, Frac(3, 10)), depth),
                     cb |-> BufSet(cb, cw, x), cw |-> Adv(cw),
                     reads |-> {Read(delaySamples)}]
           ELSE Keep(x)
      [] type = "flanger" ->
           IF has
           THEN LET flangerDelaySamples ==
                        RoundDiv(sampleRate * (ONE + 100 * Mul(half, depth)), 10000 * ONE)
                    delayedSample == BufGet(cb, Read(flangerDelaySamples))
                    processedSample == x + Mul(Mul(delayedSample, Frac(7, 10)), depth)
                IN  [y |-> processedSample,
                     cb |-> BufSet(cb, cw, processedSample), cw |-> Adv(cw),
                     reads |-> {Read(flangerDelaySamples)}]
           ELSE Keep(x)
      [] type = "vibrato" ->
           IF has
           THEN LET vibratoDelaySamples ==
                        RoundDiv(sampleRate * (2 * ONE + 3 * Mul(half, depth)), 1000 * ONE)
                    idx0 == Read(vibratoDelaySamples)
                IN  \* readIndex is an integer, so frac = 0 and only idx0 is read
                    [y |-> BufGet(cb, idx0), cb |-> BufSet(cb, cw, x), cw |-> Adv(cw),
                     reads |-> {idx0, (idx0 + 1) % MAX_CHORUS_SAMPLES}]
           ELSE Keep(x)
      [] type = "ring" -> Keep(Mul(Mul(x, lfo), depth) + Mul(x, ONE - depth))
      [] type = "tremolo" ->
           Keep(Mul(x, ONE - Mul(Mul(depth, ONE \div 2), ONE - lfo)))
      [] type = "square" ->
           Keep(Mul(x, IF lfo >= 0 THEN ONE + Mul(depth, ONE \div 2)
                       ELSE ONE - Mul(depth, ONE \div 2)))
      [] type = "triangle" ->
           Keep(Mul(x, ONE + Mul(Mul(TriangleOfPhase(phase), depth), ONE \div 2)))
      [] type = "sawtooth" ->
           LET normalizedPhase == DivT(JsRem(phase, TURN) * ONE, TURN)
               sawtoothLfo == 2 * (normalizedPhase - ONE \div 2)
           IN  Keep(Mul(x, ONE + Mul(Mul(sawtoothLfo, depth), ONE \div 2)))
      [] OTHER -> Keep(x)

\* One sample of the loop of applyModulationInPlace.
ModulationStep(s) ==
    Strict(ModulateSample(s.modulation.type, s.modulation.depth, s.phase,
                          s.buf[s.i], s.cb, s.cw, s.has),
           LAMBDA r :
             LET ph == s.phase + s.phaseIncrement
             IN  [s EXCEPT !.buf[s.i] = r.y, !.cb = r.cb, !.cw = r.cw, !.i = s.i + 1,
                           !.reads = @ \cup r.reads,
                           !.phase = IF ph >= TURN THEN ph - TURN ELSE ph])

RECURSIVE ModulationLoop(_)
ModulationLoop(s) ==
    IF s.i > Len(s.buf) THEN s ELSE Strict(ModulationStep(s), ModulationLoop)

\* The result is the processor (LFO phase, chorus state stored) and the buffer.
applyModulationInPlace(p, buffer, modulation, trackKey) ==
    LET has == trackKey \in DOMAIN p.chorusBuffers IN
    Strict(ModulationLoop(
             [ buf |-> buffer, i |-> 1, modulation |-> modulation,
               phase |-> Prop(p.modulationPhases, trackKey, 0),
               phaseIncrement |-> DivT(modulation.rate * TURN, sampleRate),
               cb |-> IF has THEN p.chorusBuffers[trackKey] ELSE NewBuffer(0),
               cw |-> Prop(p.chorusWriteIndices, trackKey, 0),
               has |-> has, reads |-> {} ]),
           LAMBDA r :
             [ p |-> IF has
                     THEN [p EXCEPT !.modulationPhases = MapSet(@, trackKey, r.phase),
                                    !.chorusBuffers = MapSet(@, trackKey, r.cb),
                                    !.chorusWriteIndices = MapSet(@, trackKey, r.cw)]
                     ELSE [p EXCEPT !.modulationPhases = MapSet(@, trackKey, r.phase)],
               buf |-> r.buf, reads |-> r.reads ])

\* --------------------------------------------------- time-domain effects

\* The offset of a delay or echo time of ms milliseconds, uncapped.
DelaySamplesUncapped(ms) == RoundDiv(ms * sampleRate, 1000)

\* The offset of a delay or echo time of ms milliseconds, in samples: capped
\* below the length of the two-second buffer.
DelaySamples(ms) ==
    Min(RoundDiv(ms * sampleRate, 1000), MAX_DELAY_SAMPLES - 1)

\* One sample of the delay loop.  s.reads and s.writes: the indices at which
\* the delay buffer has been read and written so far.
DelayStep(s) ==
    LET readIndex == JsRem(s.w - s.delaySamples + MAX_DELAY_SAMPLES, MAX_DELAY_SAMPLES)
        delayedSample == BufGet(s.db, readIndex)
        x == s.buf[s.i]
    IN  [s EXCEPT !.db = BufSet(s.db, s.w, x + Mul(delayedSample, Frac(3, 10))),
                  !.buf[s.i] = Mul(x, Frac(7, 10)) + Mul(delayedSample, Frac(5, 10)),
                  !.w = (s.w + 1) % MAX_DELAY_SAMPLES,
                  !.reads = @ \cup {readIndex},
                  !.writes = @ \cup {s.w},
                  !.i = s.i + 1]

RECURSIVE DelayLoop(_)
DelayLoop(s) == IF s.i > Len(s.buf) THEN s ELSE Strict(DelayStep(s), DelayLoop)

\* The three echo taps: delay and gain.
EchoTaps(echoSamples) ==
    << [delay |-> echoSamples, gain |-> Frac(5, 10)],
       [delay |-> echoSamples * 2, gain |-> Frac(25, 100)],
       [delay |-> echoSamples * 3, gain |-> Frac(125, 1000)] >>

\* The indices at which one tap reads the echo buffer at write position w:
\* none for a tap whose offset is not below the buffer length.
EchoTapReads(w, tap) ==
    IF tap.delay < MAX_DELAY_SAMPLES
    THEN {JsRem(w - tap.delay + MAX_DELAY_SAMPLES, MAX_DELAY_SAMPLES)}
    ELSE {}

\* The contribution of one tap at write position w.
EchoTap(echoBuffer, w, tap) ==
    IF tap.delay < MAX_DELAY_SAMPLES
    THEN Mul(BufGet(echoBuffer,
                    JsRem(w - tap.delay + MAX_DELAY_SAMPLES, MAX_DELAY_SAMPLES)),
             tap.gain)
    ELSE 0

\* One sample of the echo loop.  s.reads and s.writes: the indices at which
\* the echo buffer has been read and written so far.
EchoStep(s) ==
    LET echoSum == EchoTap(s.eb, s.w, s.taps[1]) + EchoTap(s.eb, s.w, s.taps[2])
                   + EchoTap(s.eb, s.w, s.taps[3])
        x == s.buf[s.i]
    IN  [s EXCEPT !.eb = BufSet(s.eb, s.w, x),
                  !.buf[s.i] = x + echoSum,
                  !.w = (s.w + 1) % MAX_DELAY_SAMPLES,
                  !.reads = @ \cup EchoTapReads(s.w, s.taps[1])
                              \cup EchoTapReads(s.w, s.taps[2])
                              \cup EchoTapReads(s.w, s.taps[3]),
                  !.writes = @ \cup {s.w},
                  !.i = s.i + 1]

RECURSIVE EchoLoop(_)
EchoLoop(s) == IF s.i > Len(s.buf) THEN s ELSE Strict(EchoStep(s), EchoLoop)

ROOM_PRESETS ==
    [ small |-> [decay |-> Frac(70, 100), diffusion |-> Frac(40, 100)],
      medium |-> [decay |-> Frac(80, 100), diffusion |-> Frac(50, 100)],
      large |-> [decay |-> Frac(85, 100), diffusion |-> Frac(55, 100)],
      hall |-> [decay |-> Frac(90, 100), diffusion |-> Frac(60, 100)],
      plate |-> [decay |-> Frac(88, 100), diffusion |-> Frac(70, 100)],
      cathedral |-> [decay |-> Frac(95, 100), diffusion |-> Frac(65, 100)] ]

\* The property names an object literal inherits from Object.prototype.
ObjectPrototype ==
    { "constructor", "hasOwnProperty", "isPrototypeOf", "propertyIsEnumerable",
      "toLocaleString", "toString", "valueOf", "__proto__" }

\* getReverbParams(effects).  ROOM_PRESETS[effects.roomSize] is truthy for a
\* preset and for an inherited member, which has no decay and no diffusion;
\* a result property that is undefined is left out of the result record.
getReverbParams(effects) ==
    LET DEFAULT_DECAY == Frac(84, 100)
        DEFAULT_DIFFUSION == Frac(5, 10)
        roomSize == Prop(effects, "roomSize", "")
        preset == IF roomSize \in DOMAIN ROOM_PRESETS
                  THEN ROOM_PRESETS[roomSize]
                  ELSE EmptyMap
        found == roomSize # ""
                 /\ roomSize \in DOMAIN ROOM_PRESETS \cup ObjectPrototype
        Clamp(v) == Max(0, Min(Frac(99, 100), v))
        comb == IF "reverbDecay" \in DOMAIN effects
                THEN <<Clamp(effects.reverbDecay)>>
                ELSE IF found
                THEN (IF "decay" \in DOMAIN preset THEN <<preset.decay>> ELSE <<>>)
                ELSE <<DEFAULT_DECAY>>
        allpass == IF "reverbDiffusion" \in DOMAIN effects
                   THEN <<Clamp(effects.reverbDiffusion)>>
                   ELSE IF found
                   THEN (IF "diffusion" \in DOMAIN preset
                         THEN <<preset.diffusion>> ELSE <<>>)
                   ELSE <<DEFAULT_DIFFUSION>>
    IN  [ f \in {g \in {"combFeedback"} : comb # <<>>}
                \cup {g \in {"allpassFeedback"} : allpass # <<>>} |->
            IF f = "combFeedback" THEN comb[1] ELSE allpass[1] ]

\* Comb filter s.c of the four parallel comb filters, on input sample s.input.
CombStep(s) ==
    LET combBuffer == s.cbufs[s.c]
        idx == s.cidx[s.c]
        delay == COMB_DELAYS[s.c] % combBuffer.len
        readIdx == JsRem(idx - delay + combBuffer.len, combBuffer.len)
        combSample == BufGet(combBuffer, readIdx)
    IN  [s EXCEPT !.cbufs[s.c] = BufSet(combBuffer, idx,
                                        s.input + Mul(combSample, s.combFeedback)),
                  !.cidx[s.c] = (idx + 1) % combBuffer.len,
                  !.combOutput = s.combOutput + combSample,
                  !.c = s.c + 1]

RECURSIVE CombLoop(_)
CombLoop(s) == IF s.c > 4 THEN s ELSE Strict(CombStep(s), CombLoop)

\* Allpass filter s.a of the two series allpass filters.
AllpassStep(s) ==
    LET allpassBuffer == s.abufs[s.a]
        idx == s.aidx[s.a]
        delay == ALLPASS_DELAYS[s.a] % allpassBuffer.len
        readIdx == JsRem(idx - delay + allpassBuffer.len, allpassBuffer.len)
        bufferSample == BufGet(allpassBuffer, readIdx)
        feedforward == -Mul(s.allpassFeedback, s.allpassOutput) + bufferSample
    IN  [s EXCEPT !.abufs[s.a] = BufSet(allpassBuffer, idx,
                                        s.allpassOutput
                                        + Mul(s.allpassFeedback, feedforward)),
                  !.aidx[s.a] = (idx + 1) % allpassBuffer.len,
                  !.allpassOutput = feedforward,
                  !.a = s.a + 1]

RECURSIVE AllpassLoop(_)
AllpassLoop(s) == IF s.a > 2 THEN s ELSE Strict(AllpassStep(s), AllpassLoop)

\* One sample of the reverb loop.
ReverbStep(s) ==
    Strict(CombLoop([s EXCEPT !.input = s.buf[s.i], !.combOutput = 0, !.c = 1]),
           LAMBDA c :
             Strict(AllpassLoop([c EXCEPT !.allpassOutput = Mul(c.combOutput, Frac(25, 100)),
                                          !.a = 1]),
                    LAMBDA a :
                      [a EXCEPT !.buf[s.i] = Mul(a.input, ONE - a.reverbMix)
                                             + Mul(a.allpassOutput, a.reverbMix),
                                !.i = s.i + 1]))

RECURSIVE ReverbLoop(_)
ReverbLoop(s) == IF s.i > Len(s.buf) THEN s ELSE Strict(ReverbStep(s), ReverbLoop)

\* The delay part of applyEffectsInPlace.
ApplyDelay(p, buffer, effects, trackKey) ==
    IF Truthy(effects, "delay") /\ effects.delay > 0
       /\ trackKey \in DOMAIN p.delayEffectBuffers
    THEN Strict(DelayLoop([ buf |-> buffer, i |-> 1,
                            db |-> p.delayEffectBuffers[trackKey],
                            w |-> Prop(p.delayEffectWriteIndices, trackKey, 0),
                            delaySamples |-> DelaySamples(effects.delay),
                            reads |-> {}, writes |-> {} ]),
                LAMBDA r :
                  [ p |-> [p EXCEPT !.delayEffectBuffers = MapSet(@, trackKey, r.db),
                                    !.delayEffectWriteIndices = MapSet(@, trackKey, r.w)],
                    buf |-> r.buf, reads |-> r.reads, writes |-> r.writes ])
    ELSE [p |-> p, buf |-> buffer, reads |-> {}, writes |-> {}]

\* The echo part of applyEffectsInPlace.
ApplyEcho(p, buffer, effects, trackKey) ==
    IF Truthy(effects, "echo") /\ effects.echo > 0
       /\ trackKey \in DOMAIN p.echoEffectBuffers
    THEN Strict(EchoLoop([ buf |-> buffer, i |-> 1,
                           eb |-> p.echoEffectBuffers[trackKey],
                           w |-> Prop(p.echoEffectWriteIndices, trackKey, 0),
                           taps |-> EchoTaps(DelaySamples(effects.echo)),
                           reads |-> {}, writes |-> {} ]),
                LAMBDA r :
                  [ p |-> [p EXCEPT !.echoEffectBuffers = MapSet(@, trackKey, r.eb),
                                    !.echoEffectWriteIndices = MapSet(@, trackKey, r.w)],
                    buf |-> r.buf, reads |-> r.reads, writes |-> r.writes ])
    ELSE [p |-> p, buf |-> buffer, reads |-> {}, writes |-> {}]

\* The reverb part of applyEffectsInPlace.
ApplyReverb(p, buffer, effects, trackKey) ==
    IF Truthy(effects, "reverb") /\ effects.reverb > 0
       /\ trackKey \in DOMAIN p.reverbCombBuffers
       /\ trackKey \in DOMAIN p.reverbCombIndices
       /\ trackKey \in DOMAIN p.reverbAllpassBuffers
       /\ trackKey \in DOMAIN p.reverbAllpassIndices
    THEN Strict(ReverbLoop([ buf |-> buffer, i |-> 1,
                             cbufs |-> p.reverbCombBuffers[trackKey],
                             cidx |-> p.reverbCombIndices[trackKey],
                             abufs |-> p.reverbAllpassBuffers[trackKey],
                             aidx |-> p.reverbAllpassIndices[trackKey],
                             combFeedback |-> getReverbParams(effects).combFeedback,
                             allpassFeedback |-> getReverbParams(effects).allpassFeedback,
                             reverbMix |-> Min(ONE, effects.reverb),
                             input |-> 0, combOutput |-> 0, c |-> 1,
                             allpassOutput |-> 0, a |-> 1 ]),
                LAMBDA r :
                  [ p |-> [p EXCEPT !.reverbCombBuffers[trackKey] = r.cbufs,
                                    !.reverbCombIndices[trackKey] = r.cidx,
                                    !.reverbAllpassBuffers[trackKey] = r.abufs,
                                    !.reverbAllpassIndices[trackKey] = r.aidx],
                    buf |-> r.buf ])
    ELSE [p |-> p, buf |-> buffer]

\* Delay, then echo, then reverb.  The result also has the buffer after the
\* delay and after the echo, and the indices at which the delay and echo
\* buffers were read and written.
applyEffectsInPlace(p, buffer, effects, trackKey) ==
    Strict(ApplyDelay(p, buffer, effects, trackKey),
           LAMBDA d :
             Strict(ApplyEcho(d.p, d.buf, effects, trackKey),
                    LAMBDA e :
                      Strict(ApplyReverb(e.p, e.buf, effects, trackKey),
                             LAMBDA r :
                               [ p |-> r.p, buf |-> r.buf,
                                 delay |-> d.buf, echo |-> e.buf,
                                 reads |-> d.reads \cup e.reads,
                                 writes |-> d.writes \cup e.writes ])))

\* ------------------------------------------------------ drive and dynamics

\* if (drive.distortion)
Distort(x, drive) ==
    IF Truthy(drive, "distortion")
    THEN Tanh(Mul(ONE + drive.distortion * 10, x))
    ELSE x

\* if (drive.overdrive)
Overdrive(x, drive) ==
    IF Truthy(drive, "overdrive")
    THEN Strict(Mul(ONE + drive.overdrive * 5, x),
                LAMBDA driveSignal :
                  Sign(driveSignal) * (ONE - ExpNeg(Abs(driveSignal))))
    ELSE x

\* if (drive.fuzz)
Fuzz(x, drive) ==
    IF Truthy(drive, "fuzz")
    THEN Strict(Mul(ONE + drive.fuzz * 20, x),
                LAMBDA fuzzSignal :
                  Strict(IF fuzzSignal > 0 THEN Min(ONE, fuzzSignal)
                         ELSE Max(-Frac(7, 10), Mul(fuzzSignal, Frac(7, 10))),
                         LAMBDA clipped :
                           clipped
                           + Mul(Frac(3, 10), Sin(DivT(3 * clipped * TURN, 2 * ONE)))))
    ELSE x

DriveSample(x, drive) ==
    Strict(Distort(x, drive),
           LAMBDA s1 : Strict(Overdrive(s1, drive), LAMBDA s2 : Fuzz(s2, drive)))

applyDriveInPlace(buffer, drive) ==
    [i \in DOMAIN buffer |-> DriveSample(buffer[i], drive)]

\* One sample of the compressor loop.  The envelope is kept in units of
\* 1/(ONE*ONE).
DynamicsStep(s) ==
    LET attack == Frac(3, 1000)
        release == Frac(25, 100)
        inputLevel == Abs(s.buffer[s.i]) * ONE
    IN  Strict(s.envelope + (IF inputLevel > s.envelope
                             THEN Mul(attack, inputLevel - s.envelope)
                             ELSE Mul(release, inputLevel - s.envelope)),
               LAMBDA env :
                 \* 10 ^ (-(20 log10(env / threshold)) (1 - 1/ratio) / 20)
                 LET gainReduction ==
                       IF env > s.threshold * ONE
                       THEN PowCompress(DivT(s.threshold * ONE * ONE, env), s.ratio)
                       ELSE ONE
                 IN  [s EXCEPT !.envelope = env,
                               !.buffer[s.i] = Mul(s.buffer[s.i], gainReduction),
                               !.i = s.i + 1])

RECURSIVE DynamicsLoop(_)
DynamicsLoop(s) ==
    IF s.i > Len(s.buffer) THEN s.buffer ELSE Strict(DynamicsStep(s), DynamicsLoop)

applyDynamicsInPlace(buffer, dynamics) ==
    DynamicsLoop([ buffer |-> buffer, i |-> 1, envelope |-> 0,
                   threshold |-> DbToLinear(dynamics.threshold),
                   ratio |-> dynamics.ratio ])

\* ------------------------------------------------------------- process()

\* settings.get(trackKey) || initial
SettingOf(settings, trackKey, initial) ==
    IF trackKey \in DOMAIN settings /\ ~IsNull(settings[trackKey])
    THEN settings[trackKey]
    ELSE initial

\* The five stages on one track's block buffer.  t.p: the processor; t.buf:
\* the buffer; t.stages: the buffer after synthesis and after each stage so far.
\* Reading band.gain of a band that is null throws a TypeError (t.threw).
EQStage(t, trackKey) ==
    LET eqBands == IF trackKey \in DOMAIN t.p.eqSettings
                   THEN t.p.eqSettings[trackKey]
                   ELSE initialSettings.eq
    IN  IF \E b \in DOMAIN eqBands : IsNull(eqBands[b])
        THEN [t EXCEPT !.threw = TRUE]
        ELSE Strict(applyEQInPlace(t.buf, eqBands),
                    LAMBDA b : [t EXCEPT !.buf = b, !.stages = [eq |-> b] @@ @])

ModulationStage(t, trackKey) ==
    LET modulation == SettingOf(t.p.modulationSettings, trackKey,
                                initialSettings.modulation)
    IN  Strict(IF modulation.depth # 0 \/ modulation.rate # 0
               THEN applyModulationInPlace(t.p, t.buf, modulation, trackKey)
               ELSE [p |-> t.p, buf |-> t.buf, reads |-> {}],
               LAMBDA r : [t EXCEPT !.p = r.p, !.buf = r.buf,
                                    !.stages = [modulation |-> r.buf,
                                                chorusReads |-> r.reads] @@ @])

EffectsStage(t, trackKey) ==
    LET effects == SettingOf(t.p.effectsSettings, trackKey, initialSettings.effects)
    IN  Strict(IF Truthy(effects, "delay") \/ Truthy(effects, "reverb")
                  \/ Truthy(effects, "echo")
               THEN applyEffectsInPlace(t.p, t.buf, effects, trackKey)
               ELSE [p |-> t.p, buf |-> t.buf, delay |-> t.buf, echo |-> t.buf,
                     reads |-> {}, writes |-> {}],
               LAMBDA r : [t EXCEPT !.p = r.p, !.buf = r.buf,
                                    !.stages = [effects |-> r.buf,
                                                delay |-> r.delay,
                                                echo |-> r.echo,
                                                effectReads |-> r.reads,
                                                effectWrites |-> r.writes] @@ @])

DriveStage(t, trackKey) ==
    LET drive == SettingOf(t.p.driveSettings, trackKey, initialSettings.drive)
    IN  Strict(IF Truthy(drive, "distortion") \/ Truthy(drive, "overdrive")
                  \/ Truthy(drive, "fuzz")
               THEN applyDriveInPlace(t.buf, drive)
               ELSE t.buf,
               LAMBDA b : [t EXCEPT !.buf = b, !.stages = [drive |-> b] @@ @])

DynamicsStage(t, trackKey) ==
    LET dynamics == SettingOf(t.p.dynamicsSettings, trackKey, initialSettings.dynamics)
    IN  Strict(IF dynamics.threshold # 0 \/ dynamics.ratio # 1
               THEN applyDynamicsInPlace(t.buf, dynamics)
               ELSE t.buf,
               LAMBDA b : [t EXCEPT !.buf = b, !.stages = [dynamics |-> b] @@ @])

\* The synthesis writing the block into the track's sample data.
SynthStageInPlace(p, trackKey, N) ==
    Strict(Synthesize(p.tracks[trackKey], N),
           LAMBDA sy :
             [ p |-> [p EXCEPT !.tracks[trackKey] = [sy.track EXCEPT !.data = sy.buf]],
               buf |-> sy.buf,
               threw |-> FALSE,
               stages |-> [synth |-> sy.buf, n |-> sy.n, reads |-> sy.reads,
                           wraps |-> sy.wraps] ])

\* The synthesis of one playing track into its block buffer.
SynthStage(p, trackKey, N) ==
    Strict(Synthesize(p.tracks[trackKey], N),
           LAMBDA sy :
             [ p |-> [p EXCEPT !.tracks[trackKey] = sy.track],
               buf |-> sy.buf,
               threw |-> FALSE,
               stages |-> [synth |-> sy.buf, n |-> sy.n, reads |-> sy.reads,
                           wraps |-> sy.wraps] ])

\* The stages with Drive run before Effects.
ProcessTrackDriveFirst(p, trackKey, N) ==
    Strict(SynthStage(p, trackKey, N), LAMBDA t0 :
    Strict(EQStage(t0, trackKey), LAMBDA t1 :
    IF t1.threw THEN t1 ELSE
    Strict(ModulationStage(t1, trackKey), LAMBDA t2 :
    Strict(DriveStage(t2, trackKey), LAMBDA t3 :
    Strict(EffectsStage(t3, trackKey), LAMBDA t4 :
    DynamicsStage(t4, trackKey))))))

\* One iteration of the loop over this.tracks.entries() for a playing track:
\* synthesis, then the five stages in their order (none after an exception).
ProcessTrack(p, trackKey, N) ==
    Strict(SynthStage(p, trackKey, N), LAMBDA t0 :
    Strict(EQStage(t0, trackKey), LAMBDA t1 :
    IF t1.threw THEN t1 ELSE
    Strict(ModulationStage(t1, trackKey), LAMBDA t2 :
    Strict(EffectsStage(t2, trackKey), LAMBDA t3 :
    Strict(DriveStage(t3, trackKey), LAMBDA t4 :
    DynamicsStage(t4, trackKey))))))

\* The loop over this.tracks.entries(): a track that is not playing is skipped,
\* a playing one gets a new block buffer (s.allocations counts the buffers
\* allocated), is processed and added to left and to right; an exception ends
\* the loop (s.threw).  s.keys: the tracks still to visit.  s.mono: the output
\* has one channel, and right is the same array as left (output[1] || left),
\* so that what is done to left and then to right is done to it twice.
MixStep(s) ==
    LET trackKey == CHOOSE k \in s.keys : TRUE IN
    IF ~s.p.tracks[trackKey].isPlaying
    THEN [s EXCEPT !.keys = s.keys \ {trackKey}]
    ELSE Strict(ProcessTrack(s.p, trackKey, s.N),
                LAMBDA r :
                  IF r.threw
                  THEN [s EXCEPT !.keys = {},
                                 !.p = r.p,
                                 !.threw = TRUE,
                                 !.allocations = @ + 1,
                                 !.stages = MapSet(s.stages, trackKey, r.stages)]
                  ELSE [s EXCEPT !.keys = s.keys \ {trackKey},
                                 !.p = r.p,
                                 !.allocations = @ + 1,
                                 !.left = [i \in 1..s.N |->
                                             IF s.mono
                                             THEN (s.left[i] + r.buf[i]) + r.buf[i]
                                             ELSE s.left[i] + r.buf[i]],
                                 !.right = [i \in 1..s.N |->
                                              IF s.mono
                                              THEN (s.left[i] + r.buf[i]) + r.buf[i]
                                              ELSE s.right[i] + r.buf[i]],
                                 !.stages = MapSet(s.stages, trackKey, r.stages)])

RECURSIVE MixTracks(_)
MixTracks(s) == IF s.keys = {} THEN s ELSE Strict(MixStep(s), MixTracks)

\* The largest absolute value of both channels.
MaxAbs(s) ==
    LET vals == {Abs(s.left[i]) : i \in DOMAIN s.left}
                \cup {Abs(s.right[i]) : i \in DOMAIN s.right}
    IN  IF vals = {} THEN 0 ELSE CHOOSE m \in vals : \A v \in vals : v <= m

\* The normalize stage scaling the left channel only.
NormalizeLeft(s) ==
    IF s.p.normalizeEnabled
    THEN Strict(MaxAbs(s),
                LAMBDA maxVal :
                  IF maxVal > 0
                  THEN [s EXCEPT
                          !.left = [i \in DOMAIN s.left |-> DivT(s.left[i] * ONE, maxVal)]]
                  ELSE s)
    ELSE s

\* The normalize stage.
Normalize(s) ==
    IF s.p.normalizeEnabled
    THEN Strict(MaxAbs(s),
                LAMBDA maxVal :
                  IF maxVal > 0
                  THEN IF s.mono
                       THEN [s EXCEPT
                               !.left = [i \in DOMAIN s.left |->
                                   DivT(DivT(s.left[i] * ONE, maxVal) * ONE, maxVal)],
                               !.right = [i \in DOMAIN s.left |->
                                   DivT(DivT(s.left[i] * ONE, maxVal) * ONE, maxVal)]]
                       ELSE [s EXCEPT
                          !.left = [i \in DOMAIN s.left |-> DivT(s.left[i] * ONE, maxVal)],
                          !.right = [i \in DOMAIN s.right |-> DivT(s.right[i] * ONE, maxVal)]]
                  ELSE s)
    ELSE s

\* The master volume stage.
ApplyMasterVolume(s) ==
    IF s.mono
    THEN [s EXCEPT
            !.left = [i \in DOMAIN s.left |->
                        Mul(Mul(s.left[i], s.p.masterVolume), s.p.masterVolume)],
            !.right = [i \in DOMAIN s.left |->
                         Mul(Mul(s.left[i], s.p.masterVolume), s.p.masterVolume)]]
    ELSE
    [s EXCEPT !.left = [i \in DOMAIN s.left |-> Mul(s.left[i], s.p.masterVolume)],
              !.right = [i \in DOMAIN s.right |-> Mul(s.right[i], s.p.masterVolume)]]

\* One frame of the output latency loop (s.i counted from 0).  A read index
\* outside the ring reads undefined, which the output block stores as NaN; the
\* model has no NaN and yields 0 there.
LatencyStep(s) ==
    LET writeIndex == (s.p.delayBufferIndex + s.i) % maxLatencySamples
        readIndex == JsRem(writeIndex + maxLatencySamples - s.p.latencySamples,
                           maxLatencySamples)
    IN  Strict([ l |-> BufSet(s.p.delayBufferL, writeIndex, s.left[s.i + 1]),
                 r |-> BufSet(s.p.delayBufferR, writeIndex, s.right[s.i + 1]) ],
               LAMBDA d :
                 [s EXCEPT !.p.delayBufferL = d.l,
                           !.p.delayBufferR = d.r,
                           !.left[s.i + 1] = IF s.mono
                                             THEN BufGet(d.r, readIndex)
                                             ELSE BufGet(d.l, readIndex),
                           !.right[s.i + 1] = BufGet(d.r, readIndex),
                           !.i = s.i + 1])

RECURSIVE LatencyLoop(_)
LatencyLoop(s) ==
    IF s.i >= s.N
    THEN [s EXCEPT !.p.delayBufferIndex = (@ + s.N) % maxLatencySamples]
    ELSE Strict(LatencyStep(s), LatencyLoop)

ApplyLatency(s) ==
    IF s.p.latencySamples > 0 THEN LatencyLoop([s EXCEPT !.i = 0]) ELSE s

\* The visualizer window after copyCount channel averages of the block, from
\* frame sampleIdx on (counted from 0), were stored at its fill index.
VisualizerCopy(s, sampleIdx, copyCount) ==
    LET base == s.p.visualizerSampleBufferIndex
        copied == {base + i : i \in 0..(copyCount - 1)}
        sample(j) == DivT(s.left[sampleIdx + (j - base) + 1]
                            + s.right[sampleIdx + (j - base) + 1], 2)
        old == s.p.visualizerSampleBuffer.nz
        nonzero == {j \in copied : sample(j) # 0}
    IN  [s.p.visualizerSampleBuffer EXCEPT
           !.nz = [j \in (DOMAIN old \ copied) \cup nonzero |->
                     IF j \in copied THEN sample(j) ELSE old[j]]]

\* The visualizer accumulation copying the rest of the block whatever room
\* the window has left.
VisualizerStepWholeBlock(s) ==
    LET copyCount == s.N - s.i
        idx == s.p.visualizerSampleBufferIndex + copyCount
        full == idx = s.p.visualizerBufferSize
    IN  [s EXCEPT !.p.visualizerSampleBuffer = VisualizerCopy(s, s.i, copyCount),
                  !.p.visualizerSampleBufferIndex = IF full THEN 0 ELSE idx,
                  !.posts = IF full THEN Append(@, Len(s.p.visualizerBands)) ELSE @,
                  !.allocations = IF full THEN @ + 1 ELSE @,
                  !.i = s.i + copyCount]

\* One turn of the visualizer accumulation (s.i: sampleIdx, counted from 0):
\* the channel averages of as many frames as are left in the block and fit in
\* the window are stored in the window; a full window posts one visualizerData
\* message carrying one level per band, computed in a new magnitudes buffer,
\* and resets the index.  s.posts: the lengths of the messages posted.
VisualizerStep(s) ==
    LET remainingBlockSamples == s.N - s.i
        remainingBufferSpace ==
            s.p.visualizerBufferSize - s.p.visualizerSampleBufferIndex
        copyCount == Min(remainingBlockSamples, remainingBufferSpace)
        idx == s.p.visualizerSampleBufferIndex + copyCount
        full == idx = s.p.visualizerBufferSize
    IN  [s EXCEPT !.p.visualizerSampleBuffer = VisualizerCopy(s, s.i, copyCount),
                  !.p.visualizerSampleBufferIndex = IF full THEN 0 ELSE idx,
                  !.posts = IF full THEN Append(@, Len(s.p.visualizerBands)) ELSE @,
                  !.allocations = IF full THEN @ + 1 ELSE @,
                  !.i = s.i + copyCount]

RECURSIVE VisualizerLoop(_)
VisualizerLoop(s) ==
    IF s.i >= s.N THEN s ELSE Strict(VisualizerStep(s), VisualizerLoop)

\* process(inputs, outputs) on an output block of N frames with two channels,
\* or with one (mono).  threw: the call ended by an exception instead of
\* returning true; allocations: the buffers the call allocated.
processOn(p, N, mono) ==
    Strict(MixTracks([ p |-> p, N |-> N, keys |-> DOMAIN p.tracks,
                       mono |-> mono,
                       left |-> Zeros(N), right |-> Zeros(N),
                       stages |-> EmptyMap, posts |-> <<>>, i |-> 0,
                       threw |-> FALSE, allocations |-> 0 ]), LAMBDA t :
    IF t.threw
    THEN [ p |-> t.p, output |-> [left |-> t.left, right |-> t.right],
           stages |-> t.stages, posts |-> t.posts,
           threw |-> TRUE, allocations |-> t.allocations ]
    ELSE
    Strict(Normalize(t), LAMBDA n :
    Strict(ApplyMasterVolume(n), LAMBDA v :
    Strict(ApplyLatency(v), LAMBDA l :
    Strict(VisualizerLoop([l EXCEPT !.i = 0]), LAMBDA z :
      [ p |-> z.p, output |-> [left |-> l.left, right |-> l.right],
        mixed |-> [left |-> v.left, right |-> v.right],
        stages |-> z.stages, posts |-> z.posts,
        threw |-> FALSE, allocations |-> z.allocations ])))))

\* process(inputs, outputs) on a stereo output block of N frames.
process(p, N) == processOn(p, N, FALSE)

\* ------------------------------------------------------------ the system

VARIABLES
    ap,        \* the AudioProcessor object
    queue,     \* messages posted to the port and not yet handled
    batch,     \* the messages posted since the last process() call
    last,      \* the last step of the processor: a message handled or a block rendered
    before,    \* the AudioProcessor object before that step
    output,    \* the output block of the last process() call
    stages,    \* per track rendered in that call: its buffer after each stage
    sent,      \* the visualizerData messages posted by that call
    nPosted,   \* messages posted so far
    nBlocks,   \* blocks rendered so far
    active,    \* the host still calls process() (no call has thrown)
    window,    \* frames rendered and visualizerData messages posted since the
               \* visualizer window was last sized
    timeline,  \* per frame rendered so far: the mix after the master volume,
               \* the output, and the latency sample count it was rendered with
    call,      \* a call of one function of the processor: argument and result
    preloader, \* the AudioPreloader object
    worker     \* the loader worker: its loop over the files and its messages

processorVars == <<ap, queue, batch, last, before, output, stages, sent, nPosted,
                   nBlocks, active, window, timeline, call>>

loaderVars == <<preloader, worker>>

vars == <<ap, queue, batch, last, before, output, stages, sent, nPosted, nBlocks,
          active, window, timeline, call, preloader, worker>>

\* ----------------------------------------------------------------- bounds

MaxPosted == 4
MaxBlocks == 2
MaxFrames == 4
MaxPlays == 1
MaxCommands == 3
LongBlock == 32
MaxDecodes == 2
MaxLoads == 2

NoMsg == Msg("none", "", Null)

NoCall == [fn |-> "none", done |-> FALSE]

\* The processor right after its construction.
Constructed ==
    /\ ap = NewAudioProcessor
    /\ queue = <<>>
    /\ batch = <<>>
    /\ last = [op |-> "construct", msg |-> NoMsg, N |-> 0, batch |-> <<>>,
               result |-> "none", allocations |-> 0]
    /\ before = NewAudioProcessor
    /\ output = [left |-> <<>>, right |-> <<>>]
    /\ stages = EmptyMap
    /\ sent = <<>>
    /\ nPosted = 0
    /\ nBlocks = 0
    /\ active = TRUE
    /\ window = [frames |-> 0, emitted |-> 0]
    /\ timeline = <<>>

\* new AudioPreloader(baseUrl, fileMap, workerUrl): fileMap as the sequence of
\* its keys, audioDataMap as the set of its keys, audioBuffers with "decoded"
\* or "silent" for an AudioBuffer; loadAll: the calls of loadAll, each with the
\* state of its promise and the number of its LOAD_AUDIO request (0: none was
\* posted); decodeAll: the calls of decodeAll; audioWorkletNode: the node is
\* there (not null); initAudioWorklet: the state of the promise of its call.
NewAudioPreloader(fileMap) ==
    [ fileMap |-> fileMap,
      audioDataMap |-> {},
      audioBuffers |-> EmptyMap,
      loadingProgress |-> 0,
      loadedCount |-> 0,
      totalCount |-> 0,
      isWorkerDone |-> FALSE,
      loadAll |-> <<>>,
      decodeAll |-> <<>>,
      audioWorkletNode |-> FALSE,
      initAudioWorklet |-> "none" ]

\* The worker before LOAD_AUDIO.  requests: the runs of its handler, one per
\* LOAD_AUDIO message; posted: its messages not yet handled by the main thread.
NewWorker == [requests |-> <<>>, posted |-> <<>>]

\* A run of the worker's handler of LOAD_AUDIO at its start.  entries: the
\* files still to fetch; emitted: the messages the run has posted.
NewRequest(fileMap) ==
    [ entries |-> fileMap, loadedCount |-> 0, total |-> Len(fileMap),
      emitted |-> <<>> ]

\* A preloader with no files, which is never used.
Idle == preloader = NewAudioPreloader(<<>>) /\ worker = NewWorker

Init == Constructed /\ call = NoCall /\ Idle

\* The payload is a window size that setVisualizerBufferSize accepts.
IsWindowSize(d) == IsInteger(d) /\ NumberOf(d) >= 32 /\ NumberOf(d) <= 1024

\* The control context posts one of the messages in msgs to the port (at most
\* max messages in all).
Post(msgs, max) ==
    /\ nPosted < max
    /\ \E m \in msgs :
         /\ queue' = Append(queue, m)
         /\ batch' = Append(batch, m)
    /\ nPosted' = nPosted + 1
    /\ UNCHANGED <<ap, last, before, output, stages, sent, nBlocks, active, window, call>>
    /\ UNCHANGED timeline
    /\ UNCHANGED loaderVars

\* The port delivers the oldest pending message to port.onmessage.
Deliver ==
    /\ queue # <<>>
    /\ ap' = OnMessage(ap, Head(queue))
    /\ before' = ap
    /\ last' = [op |-> "message", msg |-> Head(queue), N |-> 0, batch |-> <<>>,
                result |-> "none", allocations |-> 0]
    /\ window' = IF Head(queue).type = "setVisualizerBufferSize"
                    /\ IsWindowSize(Head(queue).data)
                 THEN [frames |-> 0, emitted |-> 0]
                 ELSE window
    /\ queue' = Tail(queue)
    /\ UNCHANGED <<batch, output, stages, sent, nPosted, nBlocks, active, call>>
    /\ UNCHANGED timeline
    /\ UNCHANGED loaderVars

\* The host renders one block of N frames, N in sizes.  The pending messages
\* have all been handled before the block is rendered (the render loop drains
\* the commands first).  The host calls process() no more once a call has
\* thrown.
RenderOn(sizes, layouts) ==
    /\ queue = <<>>
    /\ active
    /\ nBlocks < MaxBlocks
    /\ \E N \in sizes : \E mono \in layouts : \E r \in {processOn(ap, N, mono)} :
         /\ ap' = r.p
         /\ output' = r.output
         /\ stages' = r.stages
         /\ sent' = r.posts
         /\ last' = [op |-> "process", msg |-> NoMsg, N |-> N, batch |-> batch,
                     mono |-> mono,
                     result |-> IF r.threw THEN "threw" ELSE "true",
                     allocations |-> r.allocations]
         /\ active' = ~r.threw
         /\ window' = IF r.threw
                       THEN window
                       ELSE [frames |-> window.frames + N,
                             emitted |-> window.emitted + Len(r.posts)]
         /\ timeline' = IF r.threw
                         THEN timeline
                         ELSE timeline \o
                              [i \in 1..N |->
                                 [ mixed |-> <<r.mixed.left[i], r.mixed.right[i]>>,
                                   out |-> <<r.output.left[i], r.output.right[i]>>,
                                   latencySamples |-> ap.latencySamples ]]
    /\ before' = ap
    /\ batch' = <<>>
    /\ nBlocks' = nBlocks + 1
    /\ UNCHANGED <<queue, nPosted, call>>
    /\ UNCHANGED loaderVars

\* The host renders a stereo block.
Render(sizes) == RenderOn(sizes, {FALSE})

\* ------------------------------------------------------------ the inputs

Play(key, buffer, loop, rate) ==
    Msg("play", key, [buffer |-> buffer, loop |-> loop, playbackRate |-> rate])

Ramp == <<0, ONE>>
Alternating == <<ONE, -ONE, ONE, -ONE>>
Single == <<ONE>>
Loud == <<ONE, ONE>>

\* Playback rates, in units of 1/PosDen sample per frame.
Rates == 1..5

\* Lifecycle commands and well-formed adjustments of track "a".
LifecycleMsgs ==
    { Play("a", Alternating, TRUE, 2),
      Msg("play", "a", [buffer |-> Ramp, loop |-> FALSE]),
      Msg("clear", "a", Null),
      Msg("adjustModulation", "a", [type |-> "flanger", depth |-> ONE, rate |-> 250]),
      Msg("adjustEffects", "a", [delay |-> 1, echo |-> 1, reverb |-> ONE \div 2]) }

Next == Post(LifecycleMsgs, MaxPosted) \/ Deliver \/ Render({2})

Spec == Init /\ [][Next]_vars

\* Playback: play commands over three buffers, both loop settings and the
\* playback rates 0.5 to 2.5, rendered in blocks of 1, 2 or MaxFrames frames.
PlayMsgs ==
    { Play("a", d, l, r) : d \in {Ramp, Alternating, Single}, l \in BOOLEAN, r \in Rates }

NextPlay == Post(PlayMsgs, MaxPlays) \/ Deliver \/ Render({1, 2, MaxFrames})

SpecPlay == Init /\ [][NextPlay]_vars

\* Defaults: tracks played and left at their default settings or adjusted away
\* from them, rendered in blocks of LongBlock frames.
DefaultsMsgs ==
    { Play("a", Loud, TRUE, PosDen),
      Play("a", Alternating, TRUE, PosDen),
      Play("a", Ramp, FALSE, 1),
      Msg("adjustDynamics", "a", [threshold |-> 0, ratio |-> 1]),
      Msg("adjustDrive", "a", [distortion |-> ONE \div 2, overdrive |-> 0, fuzz |-> 0]) }

NextDefaults == Post(DefaultsMsgs, MaxCommands) \/ Deliver \/ Render({LongBlock})

SpecDefaults == Init /\ [][NextDefaults]_vars

\* Error handling: commands for track "a", commands whose key "b" names no
\* track, and commands with malformed payloads.
Tremolo == [type |-> "tremolo", depth |-> ONE, rate |-> 250]

AbsentKeyMsgs ==
    { Msg("stop", "b", Null),
      Msg("adjustEQ", "b", Arr(<<EQBand(60, 6)>>)),
      Msg("adjustModulation", "b", Tremolo),
      Msg("adjustEffects", "b", [delay |-> 1, reverb |-> 0, echo |-> 0]),
      Msg("adjustDrive", "b", [distortion |-> ONE, overdrive |-> 0, fuzz |-> 0]),
      Msg("adjustDynamics", "b", [threshold |-> 0, ratio |-> 1]) }

MalformedMsgs ==
    { Msg("play", "a", Null),
      Msg("play", "a", [loop |-> TRUE]),
      Msg("adjustEQ", "a", Null),
      Msg("adjustEQ", "a", EQBand(60, 6)),
      Msg("adjustModulation", "a", Null),
      Msg("adjustEffects", "a", Null),
      Msg("adjustDrive", "a", Null),
      Msg("adjustDynamics", "a", Null),
      Msg("setVisualizerBands", "", Arr(<<Band(20, 250), [startFrequency |-> 250]>>)),
      Msg("setVisualizerBufferSize", "", Num(16)),
      Msg("setVisualizerBufferSize", "", Num(2048)) }

\* An array payload of adjustEQ with an element that is no band.
NullBandMsgs == { Msg("adjustEQ", "a", Arr(<<EQBand(60, 6), Null>>)) }

ErrorMsgs ==
    { Play("a", Alternating, TRUE, PosDen), Msg("adjustModulation", "a", Tremolo) }
    \cup AbsentKeyMsgs \cup MalformedMsgs \cup NullBandMsgs

NextErrors == Post(ErrorMsgs, MaxCommands) \/ Deliver \/ Render({2})

SpecErrors == Init /\ [][NextErrors]_vars

\* AudioPreloader.setMasterVolume(volume): the message it posts.
setMasterVolume(volume) == Msg("adjustMasterVolume", "", Num(volume))

\* Global parameters: a track with a delay effect, and master volume, latency
\* and normalize commands with the empty key and with the key of the track.
GlobalMsgs ==
    { Play("a", Loud, TRUE, PosDen),
      Msg("adjustEffects", "a", [delay |-> 1, reverb |-> 0, echo |-> 0]),
      setMasterVolume(ONE),
      Msg("adjustLatency", "", Num(1)),
      Msg("adjustLatency", "a", Num(2)),
      Msg("adjustLatencySamples", "a", Num(1)),
      Msg("adjustLatencySamples", "", Num(2 * sampleRate)),
      Msg("adjustNormalize", "a", [bool |-> TRUE]),
      Msg("adjustNormalize", "", [bool |-> FALSE]) }

NextGlobal == Post(GlobalMsgs, MaxCommands) \/ Deliver \/ Render({2})

SpecGlobal == Init /\ [][NextGlobal]_vars

\* AudioPreloader.setVisualizerBufferSize(bufferSize): the messages it posts.
setVisualizerBufferSize(bufferSize) ==
    IF ~IsInteger(bufferSize) \/ NumberOf(bufferSize) < 32 \/ NumberOf(bufferSize) > 1024
    THEN {}
    ELSE { Msg("setVisualizerBufferSize", "", bufferSize) }

\* The window sizes asked for: integers in and out of the range, and 64.5.
WindowSizes == { Num(LongBlock - 1), Num(LongBlock), Num(LongBlock + 8),
                 Num(1025), Half(64) }

\* Resizing: a looping track, and window sizes sent through AudioPreloader and
\* sent to the port directly.
ResizeMsgs ==
    { Play("a", Loud, TRUE, PosDen) }
    \cup UNION { setVisualizerBufferSize(d) : d \in WindowSizes }
    \cup { Msg("setVisualizerBufferSize", "", d) : d \in WindowSizes }

NextResize == Post(ResizeMsgs, MaxCommands) \/ Deliver \/ Render({MaxFrames})

SpecResize == Init /\ [][NextResize]_vars

\* The visualizer: two bands instead of the default six, two window sizes
\* instead of the default 128, and blocks shorter than, as long as and longer
\* than twice the smaller window.
VisualizerMsgs ==
    { Msg("setVisualizerBands", "", Arr(<<Band(0, 250), Band(250, 500)>>)) }
    \cup setVisualizerBufferSize(Num(LongBlock))
    \cup setVisualizerBufferSize(Num(LongBlock + 8))

NextVisualizer ==
    \/ Post(VisualizerMsgs, MaxCommands)
    \/ Deliver
    \/ Render({MaxFrames, LongBlock, 2 * LongBlock + 1})

SpecVisualizer == Init /\ [][NextVisualizer]_vars

\* Modulation: a looping track and, for it, every modulation type with depth
\* 0 at 250 Hz (the phase takes the values 0, 1/4, 1/2 and 3/4 of a turn), the
\* three types that use the chorus buffer with depth 1, and depth 0 at 0 Hz.
ModulationTypes ==
    {"chorus", "vibrato", "flanger", "tremolo", "ring", "square", "triangle", "sawtooth"}

Modulation(type, depth, rate) ==
    Msg("adjustModulation", "a", [type |-> type, depth |-> depth, rate |-> rate])

ModulationMsgs ==
    { Play("a", Loud, TRUE, PosDen), Modulation("tremolo", 0, 0) }
    \cup { Modulation(type, 0, 250) : type \in ModulationTypes }
    \cup { Modulation(type, ONE, 250) : type \in {"chorus", "vibrato", "flanger"} }

NextModulation == Post(ModulationMsgs, MaxCommands) \/ Deliver \/ Render({2})

SpecModulation == Init /\ [][NextModulation]_vars

\* The chorus buffer: a looping track with a chorus, a vibrato or a flanger of
\* depth 1 and of depth 1/2, and blocks long enough for the write index to
\* wrap around.
ChorusMsgs ==
    { Play("a", Loud, TRUE, PosDen), Modulation("flanger", ONE \div 2, 250) }
    \cup { Modulation(type, ONE, 250) : type \in {"chorus", "vibrato", "flanger"} }

NextChorus == Post(ChorusMsgs, MaxPlays + 1) \/ Deliver \/ Render({LongBlock})

SpecChorus == Init /\ [][NextChorus]_vars

\* The LFO phase: a looping track with a tremolo at rates of 1/4 and 3/10 of
\* the sample rate, at 5/2 of the sample rate and at a negative rate.
PhaseMsgs ==
    { Play("a", Loud, TRUE, PosDen) }
    \cup { Modulation("tremolo", ONE, rate) :
             rate \in {sampleRate \div 4, (3 * sampleRate) \div 10,
                       (5 * sampleRate) \div 2, 0 - sampleRate \div 4} }

NextPhase == Post(PhaseMsgs, MaxCommands) \/ Deliver \/ Render({2})

SpecPhase == Init /\ [][NextPhase]_vars

\* AudioPreloader.adjustVolume(key, volume): the message it posts.
adjustVolume(key, volume) == Msg("adjustVolume", key, Num(volume))

\* AudioPreloader.adjustPlaybackRate(key, rate): the message it posts.
adjustPlaybackRate(key, rate) == Msg("adjustPlaybackRate", key, Num(rate))

\* Track controls: a looping track, and for it volumes of 0 and 1/2 and
\* playback rates of 1/2 and 2.
ControlMsgs ==
    { Play("a", Alternating, TRUE, PosDen),
      adjustVolume("a", 0), adjustVolume("a", ONE \div 2),
      adjustPlaybackRate("a", 1), adjustPlaybackRate("a", 2 * PosDen) }

NextControl == Post(ControlMsgs, MaxCommands) \/ Deliver \/ Render({2})

SpecControl == Init /\ [][NextControl]_vars

\* AudioPreloader.adjustLatencySamples(key, samples): the message it posts.
adjustLatencySamples(key, samples) == Msg("adjustLatencySamples", key, Num(samples))

\* Output latency: a looping track of four different samples, and latencies
\* of 1 and 3 samples, of 2 ms and of one second (maxLatencySamples).
Steps == <<ONE, ONE \div 2, 0 - ONE, ONE \div 4>>

LatencyMsgs ==
    { Play("a", Steps, TRUE, PosDen),
      adjustLatencySamples("", 1), adjustLatencySamples("", 3),
      adjustLatencySamples("", maxLatencySamples),
      Msg("adjustLatency", "", Num(2)) }

NextLatency == Post(LatencyMsgs, MaxCommands) \/ Deliver \/ Render({2})

SpecLatency == Init /\ [][NextLatency]_vars

\* Latency commands in milliseconds and in samples, within the second the ring
\* holds, beyond it and below zero.
LatencyRangeMsgs ==
    { Play("a", Steps, TRUE, PosDen),
      Msg("adjustLatency", "", Num(500)),
      Msg("adjustLatency", "", Num(2000)),
      Msg("adjustLatency", "", Num(0 - 1)),
      adjustLatencySamples("", 0 - 5),
      adjustLatencySamples("", 5 * sampleRate),
      Msg("adjustLatencySamples", "", Half(2)) }

NextLatencyRange == Post(LatencyRangeMsgs, MaxCommands) \/ Deliver \/ Render({2})

SpecLatencyRange == Init /\ [][NextLatencyRange]_vars

\* Delay and echo times from one millisecond to far beyond the two seconds the
\* buffers hold, on a playing track.
EffectsMsgs ==
    { Play("a", Loud, TRUE, PosDen),
      Msg("adjustEffects", "a", [delay |-> 1, echo |-> 700]),
      Msg("adjustEffects", "a", [delay |-> 5000, echo |-> 1500]),
      Msg("adjustEffects", "a", [delay |-> 2000, echo |-> 5000]),
      Msg("adjustEffects", "a", [echo |-> 1000]) }

NextEffects == Post(EffectsMsgs, MaxCommands) \/ Deliver \/ Render({2})

SpecEffects == Init /\ [][NextEffects]_vars

\* A session that plays a track and then configures each of the five stages:
\* what the n-th postMessage of the session may carry.  EQ, Modulation and
\* Drive are inactive until their message arrives, Dynamics is active until
\* its one does.
ChainSession ==
    << { Play("a", Loud, TRUE, PosDen) },
       { Msg("adjustEQ", "a", Arr(<<EQBand(60, 6)>>)) },
       { Modulation("tremolo", ONE, 250) },
       { Msg("adjustEffects", "a", [delay |-> 1, echo |-> 1, reverb |-> ONE \div 2]),
         Msg("adjustEffects", "a", [delay |-> 0, echo |-> 0, reverb |-> 0]) },
       { Msg("adjustDrive", "a", [distortion |-> ONE \div 2, overdrive |-> 0, fuzz |-> 0]) },
       { Msg("adjustDynamics", "a", [threshold |-> 0, ratio |-> 1]) } >>

ChainMsgs ==
    IF nPosted < Len(ChainSession) THEN ChainSession[nPosted + 1] ELSE {}

NextChain == Post(ChainMsgs, Len(ChainSession)) \/ Deliver \/ Render({2, LongBlock})

SpecChain == Init /\ [][NextChain]_vars

\* Output layouts: a host that hands process() stereo blocks or blocks with
\* one channel, a playing track, normalize switched on and off, and a latency.
LayoutMsgs ==
    { Play("a", Steps, TRUE, PosDen),
      Play("b", Loud, TRUE, PosDen),
      Msg("adjustNormalize", "", [bool |-> TRUE]),
      Msg("adjustNormalize", "", [bool |-> FALSE]),
      Msg("adjustLatencySamples", "", Num(1)) }

NextLayout == Post(LayoutMsgs, MaxCommands) \/ Deliver \/ RenderOn({2}, BOOLEAN)

SpecLayout == Init /\ [][NextLayout]_vars

\* Two tracks: every per-track command for "a", and "b" played and modulated.
TwoTrackMsgs ==
    { Play("a", Steps, TRUE, PosDen),
      Play("b", Alternating, FALSE, 1),
      Msg("stop", "a", Null),
      Msg("clear", "a", Null),
      Msg("adjustEQ", "a", Arr(<<EQBand(60, 6)>>)),
      Msg("adjustModulation", "b", Tremolo),
      Msg("adjustEffects", "a", [delay |-> 1, reverb |-> 0, echo |-> 1]),
      Msg("adjustDrive", "a", [distortion |-> ONE \div 2, overdrive |-> 0, fuzz |-> 0]),
      Msg("adjustDynamics", "a", [threshold |-> 0, ratio |-> 1]) }

NextTwoTracks == Post(TwoTrackMsgs, MaxCommands) \/ Deliver \/ Render({2})

SpecTwoTracks == Init /\ [][NextTwoTracks]_vars

\* Calls of single functions of the processor, on arguments drawn from the
\* sets below: call holds the function, its argument and, once the call has
\* returned, its result.
Call(fn, arg) == [fn |-> fn, arg |-> arg, done |-> FALSE]

\* Effects settings with a reverb: no roomSize, the empty string, presets, a
\* name that is no preset, and names that Object.prototype has; with and
\* without reverbDecay and reverbDiffusion, below, in and above [0, 0.99].
RoomSizes == {"", "small", "hall", "cathedral", "garage", "constructor", "toString"}
Feedbacks == {0 - ONE \div 2, 0, ONE \div 2, Frac(99, 100), 2 * ONE}

ReverbSettings ==
    { [reverb |-> ONE \div 2] @@ room @@ decay @@ diffusion :
        room \in {EmptyMap} \cup {[roomSize |-> r] : r \in RoomSizes},
        decay \in {EmptyMap} \cup {[reverbDecay |-> v] : v \in Feedbacks},
        diffusion \in {EmptyMap} \cup {[reverbDiffusion |-> v] : v \in Feedbacks} }

\* Blocks of MaxFrames - 1 samples and band lists of up to two bands, with
\* gains of 0 and of 6 dB.
Samples == {0 - ONE, 0, ONE \div 2, ONE}
Blocks == [1..(MaxFrames - 1) -> Samples]
Bands == {EQBand(60, 0), EQBand(1000, 0), EQBand(1000, 6)}
BandLists == {<<>>} \cup {<<b>> : b \in Bands} \cup {<<b, c>> : b, c \in Bands}

\* Mixed stereo blocks of two frames, with normalize on and off.
Levels == {0 - 2 * ONE, 0 - ONE \div 4, 0, ONE \div 2, ONE}
Mixes ==
    { [p |-> [normalizeEnabled |-> e], mono |-> FALSE, left |-> l, right |-> r] :
        e \in BOOLEAN, l \in [1..2 -> Levels], r \in [1..2 -> Levels] }

Calls ==
    {Call("getReverbParams", e) : e \in ReverbSettings}
    \cup {Call("applyEQInPlace", [buffer |-> b, eqBands |-> l]) :
             b \in Blocks, l \in BandLists}
    \cup {Call("normalize", m) : m \in Mixes}

InitCalls == Constructed /\ call \in Calls /\ Idle

Return(result) ==
    /\ ~call.done
    /\ call' = [fn |-> call.fn, arg |-> call.arg, done |-> TRUE, result |-> result]
    /\ UNCHANGED <<ap, queue, batch, last, before, output, stages, sent,
                   nPosted, nBlocks, active, window, timeline>>
    /\ UNCHANGED loaderVars

CallGetReverbParams ==
    /\ call.fn = "getReverbParams"
    /\ Return(getReverbParams(call.arg))

CallApplyEQInPlace ==
    /\ call.fn = "applyEQInPlace"
    /\ Return(applyEQInPlace(call.arg.buffer, call.arg.eqBands))

CallNormalize ==
    /\ call.fn = "normalize"
    /\ Return(Normalize(call.arg))

NextCalls == CallGetReverbParams \/ CallApplyEQInPlace \/ CallNormalize

SpecCalls == InitCalls /\ [][NextCalls]_vars

\* ------------------------------------------------------------- the loader

\* The file maps: none, one and two files.
FileMaps == { <<>>, <<"a">>, <<"a", "b">> }

WorkerMsg(type, payload) == [type |-> type, payload |-> payload]

\* The loop of the worker posting DONE after every file.
LoadAudioFileDoneEach(w, ok) ==
    LET key == Head(w.entries)
        loadedCount == IF ok THEN w.loadedCount + 1 ELSE w.loadedCount
        file == IF ok
                THEN << WorkerMsg("PROGRESS", [key |-> key, loadedCount |-> loadedCount,
                                               total |-> w.total]),
                        WorkerMsg("LOADED", [key |-> key]) >>
                ELSE << WorkerMsg("ERROR", [key |-> key]) >>
        msgs == file \o << WorkerMsg("DONE", [total |-> w.total]) >>
    IN  [w EXCEPT !.entries = Tail(w.entries),
                  !.loadedCount = loadedCount,
                  !.emitted = @ \o msgs]

\* One turn of the loop of a run w of the worker's handler of LOAD_AUDIO: the
\* fetch of the first remaining file has succeeded (ok) or failed, and after
\* the last file DONE is posted.
LoadAudioFile(w, ok) ==
    LET key == Head(w.entries)
        loadedCount == IF ok THEN w.loadedCount + 1 ELSE w.loadedCount
        file == IF ok
                THEN << WorkerMsg("PROGRESS", [key |-> key, loadedCount |-> loadedCount,
                                               total |-> w.total]),
                        WorkerMsg("LOADED", [key |-> key]) >>
                ELSE << WorkerMsg("ERROR", [key |-> key]) >>
        msgs == IF Len(w.entries) = 1
                THEN file \o << WorkerMsg("DONE", [total |-> w.total]) >>
                ELSE file
    IN  [w EXCEPT !.entries = Tail(w.entries),
                  !.loadedCount = loadedCount,
                  !.emitted = @ \o msgs]

\* worker.onmessage of the preloader.
WorkerOnMessage(pre, m) ==
    CASE m.type = "PROGRESS" ->
           [pre EXCEPT !.loadingProgress = (m.payload.loadedCount * ONE) \div m.payload.total,
                       !.loadedCount = m.payload.loadedCount,
                       !.totalCount = m.payload.total]
      [] m.type = "LOADED" -> [pre EXCEPT !.audioDataMap = @ \cup {m.payload.key}]
      [] m.type = "DONE" -> [pre EXCEPT !.isWorkerDone = TRUE]
      [] OTHER -> pre

\* The message listeners that the calls of loadAll have added, each removed
\* when it settles its promise: every listener still there gets the message.
LoadAllOnMessage(pre, m) ==
    [pre EXCEPT !.loadAll =
       [c \in DOMAIN @ |->
          IF @[c].state # "pending" THEN @[c]
          ELSE CASE m.type = "DONE" -> [@[c] EXCEPT !.state = "resolved"]
                 [] m.type = "ERROR" -> [@[c] EXCEPT !.state = "rejected"]
                 [] OTHER -> @[c]]]

\* The callback of decodeAll for a decodeAudioData that failed, storing nothing.
OnDecodeFailedNoBuffer(pre, key) == pre

\* decodeAll: .then((audioBuf) => this.audioBuffers.set(key, audioBuf))
OnDecoded(pre, key) == [pre EXCEPT !.audioBuffers = MapSet(@, key, "decoded")]

\* decodeAll: .catch(...), a silent buffer of one second
OnDecodeFailed(pre, key) == [pre EXCEPT !.audioBuffers = MapSet(@, key, "silent")]

\* loadAll(): with no files the promise resolves at once; otherwise LOAD_AUDIO
\* is posted, on which the worker starts a run of its handler, and a listener
\* is added.  max: the calls the client makes at most.
loadAll(max) ==
    /\ Len(preloader.loadAll) < max
    /\ IF Len(preloader.fileMap) = 0
       THEN /\ preloader' = [preloader EXCEPT
                               !.isWorkerDone = TRUE,
                               !.loadAll = Append(@, [state |-> "resolved",
                                                      request |-> 0])]
            /\ worker' = worker
       ELSE /\ preloader' = [preloader EXCEPT
                               !.loadAll = Append(@, [state |-> "pending",
                                                      request |-> Len(worker.requests) + 1])]
            /\ worker' = [worker EXCEPT
                            !.requests = Append(@, NewRequest(preloader.fileMap))]
    /\ UNCHANGED processorVars

\* A run of the worker's handler ends the fetch of one file.
Fetch ==
    /\ \E r \in DOMAIN worker.requests :
         /\ worker.requests[r].entries # <<>>
         /\ \E ok \in BOOLEAN :
              LET w == LoadAudioFile(worker.requests[r], ok)
                  msgs == SubSeq(w.emitted, Len(worker.requests[r].emitted) + 1,
                                 Len(w.emitted))
              IN  worker' = [worker EXCEPT !.requests[r] = w,
                                           !.posted = @ \o msgs]
    /\ UNCHANGED <<preloader, processorVars>>

\* The main thread handles the oldest message of the worker.
Receive ==
    /\ worker.posted # <<>>
    /\ preloader' = LoadAllOnMessage(WorkerOnMessage(preloader, Head(worker.posted)),
                                     Head(worker.posted))
    /\ worker' = [worker EXCEPT !.posted = Tail(@)]
    /\ UNCHANGED processorVars

\* decodeAll(): a decodeAudioData is started for every downloaded key that has
\* no decoded buffer; with none to start the promise resolves at once.  Of a
\* call: downloaded and decoded, the keys of the two maps at the call;
\* started and pending, the decodes begun and not yet settled; released,
\* releaseAllResources was called before the promise resolved; atResolve, the
\* keys of the two maps when it resolved.
decodeAll ==
    /\ Len(preloader.decodeAll) < MaxDecodes
    /\ LET keys == preloader.audioDataMap \ DOMAIN preloader.audioBuffers
           now == [downloaded |-> preloader.audioDataMap,
                   decoded |-> DOMAIN preloader.audioBuffers]
       IN  preloader' =
             [preloader EXCEPT !.decodeAll =
                Append(@, [ downloaded |-> now.downloaded, decoded |-> now.decoded,
                            started |-> keys, pending |-> keys,
                            state |-> IF keys = {} THEN "resolved" ELSE "pending",
                            released |-> FALSE,
                            atResolve |-> now ])]
    /\ UNCHANGED <<worker, processorVars>>

\* A decodeAudioData of a call of decodeAll settles: its callback runs, and
\* with the last one of the call the promise of decodeAll resolves.
DecodeSettled ==
    /\ \E c \in DOMAIN preloader.decodeAll :
       \E key \in preloader.decodeAll[c].pending :
       \E ok \in BOOLEAN :
         LET pre == IF ok THEN OnDecoded(preloader, key)
                          ELSE OnDecodeFailed(preloader, key)
             pending == preloader.decodeAll[c].pending \ {key}
         IN  preloader' =
               [pre EXCEPT !.decodeAll[c].pending = pending,
                           !.decodeAll[c].state =
                               IF pending = {} THEN "resolved" ELSE "pending",
                           !.decodeAll[c].atResolve =
                               [downloaded |-> pre.audioDataMap,
                                decoded |-> DOMAIN pre.audioBuffers]]
    /\ UNCHANGED <<worker, processorVars>>

\* releaseAllResources()
releaseAllResources ==
    /\ preloader.audioDataMap # {} \/ DOMAIN preloader.audioBuffers # {}
    /\ preloader' =
         [preloader EXCEPT
            !.audioDataMap = {},
            !.audioBuffers = EmptyMap,
            !.decodeAll = [c \in DOMAIN @ |->
                             IF @[c].state = "pending"
                             THEN [@[c] EXCEPT !.released = TRUE]
                             ELSE @[c]]]
    /\ UNCHANGED <<worker, processorVars>>

InitLoader ==
    /\ Constructed
    /\ call = NoCall
    /\ preloader \in {NewAudioPreloader(fileMap) : fileMap \in FileMaps}
    /\ worker = NewWorker

NextLoader ==
    loadAll(1) \/ Fetch \/ Receive \/ decodeAll \/ DecodeSettled \/ releaseAllResources

SpecLoader == InitLoader /\ [][NextLoader]_vars

\* A client that calls loadAll again, while an earlier call is pending or
\* after it has settled.
NextReload == loadAll(MaxLoads) \/ Fetch \/ Receive

SpecReload == InitLoader /\ [][NextReload]_vars

\* --------------------------------------------- the preloader's control methods

\* postTypedMessage(message): the messages it puts on the node's port, and what
\* it logs.
postTypedMessage(pre, message) ==
    IF ~pre.audioWorkletNode
    THEN [posts |-> <<>>, logged |-> "error"]
    ELSE [posts |-> <<message>>, logged |-> "none"]

\* audioBuffer.getChannelData(0).slice(0): a decoded file has the samples of
\* Ramp, the buffer made after a failed decoding has sampleRate zeros.
getChannelData(audioBuffer) ==
    IF audioBuffer = "silent" THEN Zeros(sampleRate) ELSE Ramp

\* playAudio posting for a key without an AudioBuffer.
playAudioUnchecked(pre, key, loop, playbackRate) ==
    IF ~pre.audioWorkletNode
    THEN [posts |-> <<>>, logged |-> "error"]
    ELSE postTypedMessage(pre,
             Play(key,
                  IF key \in DOMAIN pre.audioBuffers
                  THEN getChannelData(pre.audioBuffers[key]) ELSE <<>>,
                  loop, playbackRate))

\* playAudio(key, loop, playbackRate)
playAudio(pre, key, loop, playbackRate) ==
    IF ~pre.audioWorkletNode
    THEN [posts |-> <<>>, logged |-> "error"]
    ELSE IF key \notin DOMAIN pre.audioBuffers
    THEN [posts |-> <<>>, logged |-> "warn"]
    ELSE postTypedMessage(pre,
             Play(key, getChannelData(pre.audioBuffers[key]), loop, playbackRate))

\* AudioPreloader.setVisualizerBufferSize(bufferSize) as a call.
VisualizerBufferSize(pre, bufferSize) ==
    IF ~pre.audioWorkletNode \/ setVisualizerBufferSize(bufferSize) = {}
    THEN [posts |-> <<>>, logged |-> "error"]
    ELSE postTypedMessage(pre, Msg("setVisualizerBufferSize", "", bufferSize))

\* The calls of control methods that the client makes: playAudio of keys "a"
\* and "b", stopAudio, setMasterVolume and setVisualizerBufferSize; each with
\* the name of the method, its key, and what it posts and logs.
ControlCalls(pre) ==
    { [fn |-> "playAudio", key |-> key, r |-> playAudio(pre, key, FALSE, PosDen)] :
         key \in {"a", "b"} }
    \cup { [fn |-> "stopAudio", key |-> "a",
            r |-> postTypedMessage(pre, Msg("stop", "a", Null))],
          [fn |-> "setMasterVolume", key |-> "",
            r |-> postTypedMessage(pre, setMasterVolume(ONE))],
          [fn |-> "setVisualizerBufferSize", key |-> "",
            r |-> VisualizerBufferSize(pre, Num(16))] }

\* The client calls a control method (at most max calls in all).
ControlCall(max) ==
    /\ call.n < max
    /\ \E c \in ControlCalls(preloader) :
         /\ queue' = queue \o c.r.posts
         /\ batch' = batch \o c.r.posts
         /\ nPosted' = nPosted + Len(c.r.posts)
         /\ call' = [fn |-> c.fn, done |-> TRUE, key |-> c.key,
                     logged |-> c.r.logged, n |-> call.n + 1]
    /\ UNCHANGED <<ap, last, before, output, stages, sent, nBlocks, active, window,
                   timeline>>
    /\ UNCHANGED loaderVars

\* initAudioWorklet(moduleUrl) is called: addModule is awaited.
initAudioWorklet ==
    /\ preloader.initAudioWorklet = "none"
    /\ preloader' = [preloader EXCEPT !.initAudioWorklet = "pending"]
    /\ UNCHANGED <<worker, processorVars>>

\* addModule settles: with the module added the node is made, connected and
\* given its message handler, all in one turn; were it not added, the promise
\* of initAudioWorklet is rejected and there is no node.
ModuleAdded ==
    /\ preloader.initAudioWorklet = "pending"
    /\ \E ok \in BOOLEAN :
         preloader' = [preloader EXCEPT
                          !.audioWorkletNode = ok,
                          !.initAudioWorklet = IF ok THEN "resolved" ELSE "rejected"]
    /\ UNCHANGED <<worker, processorVars>>

\* A client that loads and decodes the file of key "a", sets up the worklet
\* and calls control methods, in any order; key "b" has no file.
InitClient ==
    /\ Constructed
    /\ call = [fn |-> "none", done |-> FALSE, key |-> "", logged |-> "none", n |-> 0]
    /\ preloader = NewAudioPreloader(<<"a">>)
    /\ worker = NewWorker

NextClient ==
    \/ loadAll(1) \/ Fetch \/ Receive \/ decodeAll \/ DecodeSettled
    \/ releaseAllResources
    \/ initAudioWorklet \/ ModuleAdded \/ ControlCall(MaxPlays + 1)

SpecClient == InitClient /\ [][NextClient]_vars

\* Stopped tracks: track "a" is played, with or without loop, stopped, adjusted
\* and cleared, next to a looping track "b".
StoppedMsgs ==
    { Msg("play", "a", [buffer |-> Ramp, loop |-> FALSE]),
      Play("a", Alternating, TRUE, PosDen),
      Play("b", Loud, TRUE, PosDen),
      Msg("stop", "a", Null),
      Msg("clear", "a", Null),
      Msg("adjustEffects", "a", [delay |-> 1, echo |-> 1, reverb |-> ONE \div 2]) }

NextStopped == Post(StoppedMsgs, MaxCommands) \/ Deliver \/ Render({2})

SpecStopped == Init /\ [][NextStopped]_vars

\* Rendering without end: a non-looping track is played once, at rate 0,
\* 0.5 or 1, and the host keeps rendering blocks of 2 frames.  The block counter,
\* the timeline and the visualizer window, which only observe the run, are
\* left alone, so that the processor's own state is all that distinguishes the
\* states.  The host renders as long as the processor is active (weak
\* fairness on the render quantum).
StopsMsgs ==
    { Play("a", d, FALSE, r) : d \in {Ramp, Alternating}, r \in {0, 1, PosDen} }

RenderAgain(sizes) ==
    /\ queue = <<>>
    /\ active
    /\ \E N \in sizes : \E r \in {process(ap, N)} :
         /\ ap' = r.p
         /\ output' = r.output
         /\ stages' = r.stages
         /\ sent' = r.posts
         /\ last' = [op |-> "process", msg |-> NoMsg, N |-> N, batch |-> batch,
                     mono |-> FALSE,
                     result |-> IF r.threw THEN "threw" ELSE "true",
                     allocations |-> r.allocations]
         /\ active' = ~r.threw
    /\ before' = ap
    /\ batch' = <<>>
    /\ UNCHANGED <<queue, nPosted, nBlocks, window, timeline, call>>
    /\ UNCHANGED loaderVars

NextStops == Post(StopsMsgs, MaxPlays) \/ Deliver \/ RenderAgain({2})

SpecStops == Init /\ [][NextStops]_vars /\ WF_vars(RenderAgain({2}))

\* --------------------------------------------------------------- history

\* The last step rendered a block.
Rendered == last.op = "process"

\* m is a play command that the handler accepts.
IsPlay(m) == m.type = "play" /\ ~IsNull(m.data) /\ "buffer" \in DOMAIN m.data

\* key is in none of the per-track Maps of processor p.
Absent(p, key) ==
    /\ key \notin DOMAIN p.tracks
    /\ \A f \in SettingsMaps \cup EffectMaps : key \notin DOMAIN p[f]

\* buffer b holds zeros only.
Silent(b) == \A i \in DOMAIN b.nz : b.nz[i] = 0

\* Some per-track effect state of key differs in p from that of a new track.
Dirty(p, key) ==
    /\ key \in DOMAIN p.chorusBuffers
    /\ \/ p.modulationPhases[key] # 0
       \/ p.chorusWriteIndices[key] # 0
       \/ ~Silent(p.chorusBuffers[key])
    /\ \/ p.delayEffectWriteIndices[key] # 0 /\ ~Silent(p.delayEffectBuffers[key])
       \/ p.echoEffectWriteIndices[key] # 0 /\ ~Silent(p.echoEffectBuffers[key])
    /\ \E c \in DOMAIN COMB_DELAYS :
         p.reverbCombIndices[key][c] # 0 /\ ~Silent(p.reverbCombBuffers[key][c])

\* ------------------------------------------------------ command ordering

\* C1: when play(key) and then clear(key) were issued before a render block,
\* clear being the last command for key, then at that block key has no track,
\* no per-track settings and no effect state, and nothing is rendered for it.
PlayThenClear(b, key) ==
    \E i, j \in DOMAIN b :
        /\ i < j
        /\ IsPlay(b[i]) /\ b[i].key = key
        /\ b[j].type = "clear" /\ b[j].key = key
        /\ \A l \in DOMAIN b : l > j => b[l].key # key

C1_PlayThenClearLeavesNoTrack ==
    \A key \in {"a"} :
        (Rendered /\ PlayThenClear(last.batch, key))
            => (Absent(before, key) /\ Absent(ap, key) /\ key \notin DOMAIN stages)

C1_Witness ==
    /\ Rendered
    /\ PlayThenClear(last.batch, "a")
    /\ Len(last.batch) = 2
    /\ nBlocks = 1

\* ------------------------------------------------------------ play resets

\* C2: right after a play(key) command the track of key is the one of the
\* command, at read position 0 and playing, the LFO phase of key is 0, every
\* delay, echo, chorus, comb and allpass write index of key is 0 and every such
\* buffer holds zeros only, whatever was rendered for key before.
FreshEffectState(p, key) ==
    /\ p.modulationPhases[key] = 0
    /\ p.delayEffectWriteIndices[key] = 0 /\ Silent(p.delayEffectBuffers[key])
    /\ p.echoEffectWriteIndices[key] = 0 /\ Silent(p.echoEffectBuffers[key])
    /\ p.chorusWriteIndices[key] = 0 /\ Silent(p.chorusBuffers[key])
    /\ \A c \in DOMAIN p.reverbCombBuffers[key] :
         p.reverbCombIndices[key][c] = 0 /\ Silent(p.reverbCombBuffers[key][c])
    /\ \A a \in DOMAIN p.reverbAllpassBuffers[key] :
         p.reverbAllpassIndices[key][a] = 0 /\ Silent(p.reverbAllpassBuffers[key][a])

C2_PlayResetsTrack ==
    (last.op = "message" /\ IsPlay(last.msg)) =>
        LET key == last.msg.key IN
        /\ key \in DOMAIN ap.tracks
        /\ ap.tracks[key].data = last.msg.data.buffer
        /\ ap.tracks[key].readIndex = 0
        /\ ap.tracks[key].isPlaying
        /\ \A f \in EffectMaps : key \in DOMAIN ap[f]
        /\ FreshEffectState(ap, key)

C2_Witness ==
    /\ last.op = "message" /\ IsPlay(last.msg)
    /\ last.msg.key \in DOMAIN before.tracks
    /\ before.tracks[last.msg.key].readIndex > 0
    /\ Dirty(before, last.msg.key)

\* ------------------------------------------------------------------ clear

\* C4: right after a clear(key) command key is absent from the track store,
\* from the five settings Maps and from every per-track effect buffer, index
\* and phase Map.
C4_ClearReleasesAll ==
    (last.op = "message" /\ last.msg.type = "clear") => Absent(ap, last.msg.key)

C4_Witness ==
    /\ last.op = "message" /\ last.msg.type = "clear"
    /\ last.msg.key \in DOMAIN before.tracks
    /\ \A f \in SettingsMaps \cup EffectMaps : last.msg.key \in DOMAIN before[f]
    /\ Dirty(before, last.msg.key)

\* --------------------------------------------------------- default settings

\* The five settings of key in p are those a play command gives a track.
DefaultSettings(p, key) ==
    /\ p.eqSettings[key] = initialSettings.eq
    /\ p.modulationSettings[key] = initialSettings.modulation
    /\ p.effectsSettings[key] = initialSettings.effects
    /\ p.driveSettings[key] = initialSettings.drive
    /\ p.dynamicsSettings[key] = initialSettings.dynamics

\* C3: for a track whose five settings are the defaults of its play command,
\* none of the five stages (EQ, modulation, time-domain effects, drive,
\* dynamics) modifies the block buffer of the track.
C3_DefaultStagesAreNeutral ==
    Rendered =>
        \A key \in DOMAIN stages :
            DefaultSettings(before, key) =>
                /\ stages[key].eq = stages[key].synth
                /\ stages[key].modulation = stages[key].eq
                /\ stages[key].effects = stages[key].modulation
                /\ stages[key].drive = stages[key].effects
                /\ stages[key].dynamics = stages[key].drive

\* --------------------------------------------------------- error handling

AdjustTypes ==
    {"adjustEQ", "adjustModulation", "adjustEffects", "adjustDrive", "adjustDynamics"}

\* C9: a stop or adjust command whose key names no track leaves every part of
\* the processor state as it was.
C9_AbsentKeyIsNoOp ==
    (/\ last.op = "message"
     /\ last.msg.type \in {"stop"} \cup AdjustTypes
     /\ last.msg.key \notin DOMAIN before.tracks)
        => ap = before

\* The payload of command m is malformed.
Malformed(m) ==
    \/ m.type = "play" /\ ~IsPlay(m)
    \/ m.type = "adjustEQ" /\ ~IsArray(m.data)
    \/ m.type \in AdjustTypes \ {"adjustEQ"} /\ IsNull(m.data)
    \/ m.type = "setVisualizerBands"
       /\ ~(IsArray(m.data)
            /\ \A i \in DOMAIN m.data.array :
                 {"startFrequency", "endFrequency"} \subseteq DOMAIN m.data.array[i])
    \/ m.type = "setVisualizerBufferSize"
       /\ ~(IsInteger(m.data) /\ m.data.num \in 32..1024)

\* C10: a command with a malformed payload is dropped: the processor state
\* after it is the state before it.
C10_MalformedIsDropped ==
    (last.op = "message" /\ Malformed(last.msg)) => ap = before

\* C11: every process() call returns true, without throwing, and hands back
\* the whole output block, whatever commands came before it.
C11_ProcessNeverThrows ==
    Rendered =>
        /\ last.result = "true"
        /\ Len(output.left) = last.N
        /\ Len(output.right) = last.N

\* ------------------------------------------------------ global parameters

\* The per-track state of processor p: tracks, settings and effect state.
PerTrack(p) == [f \in {"tracks"} \cup SettingsMaps \cup EffectMaps |-> p[f]]

\* C12: an adjustMasterVolume command with value v sets the master volume to
\* v, by which the blocks after it are scaled, and changes no per-track state.
C12_MasterVolumeCommandApplies ==
    (last.op = "message" /\ last.msg.type = "adjustMasterVolume") =>
        /\ ap.masterVolume = NumberOf(last.msg.data)
        /\ PerTrack(ap) = PerTrack(before)

Complete(p, key) == \A f \in SettingsMaps \cup EffectMaps : key \in DOMAIN p[f]

\* C14: a command is applied as a whole before any block is rendered: in every
\* state, and so in every state a process() call starts from, each track has
\* its five settings and all its effect buffers, indices and phase, and a
\* block renders exactly the tracks that were playing when it began.
C14_NoPartialCommandObserved ==
    /\ \A key \in DOMAIN ap.tracks : Complete(ap, key)
    /\ Rendered =>
         /\ \A key \in DOMAIN before.tracks : Complete(before, key)
         /\ DOMAIN stages
              = {key \in DOMAIN before.tracks : before.tracks[key].isPlaying}

C14_Witness ==
    /\ Rendered
    /\ "a" \in DOMAIN stages
    /\ Len(last.batch) >= 2
    /\ IsPlay(last.batch[1])
    /\ last.batch[Len(last.batch)].type = "adjustEffects"
    /\ before.effectsSettings["a"] = last.batch[Len(last.batch)].data

\* ---------------------------------------------------------- read position

\* The length of the track's samples in position units.
Length(track) == Len(track.data) * PosDen

Interpolated(data, pos) ==
    LET i0 == pos \div PosDen
        frac == pos % PosDen
        s1 == data[i0 + 1]
        s2 == IF i0 + 2 <= Len(data) THEN data[i0 + 2] ELSE s1
    IN  DivT(s1 * (PosDen - frac) + s2 * frac, PosDen)

\* A block of N frames was rendered for the looping track of key, which was at
\* read position 0 when the block began.
LoopedBlockFromStart(key) ==
    /\ Rendered
    /\ key \in DOMAIN stages
    /\ before.tracks[key].loop
    /\ before.tracks[key].readIndex = 0

C7_EndOfSamplesStopsTrack ==
    Rendered =>
        /\ \A key \in DOMAIN stages :
             LET track == before.tracks[key] IN
             (~track.loop /\ stages[key].n < last.N) =>
                 /\ ~ap.tracks[key].isPlaying
                 /\ track.readIndex + stages[key].n * track.playbackRate
                        >= Length(track) - PosDen
                 /\ \A i \in (stages[key].n + 1)..last.N : stages[key].synth[i] = 0
        /\ \A key \in DOMAIN before.tracks :
             ~before.tracks[key].isPlaying =>
                 (key \notin DOMAIN stages /\ ~ap.tracks[key].isPlaying)
        /\ (DOMAIN stages = {} /\ ap.latencySamples = 0) =>
             /\ \A i \in 1..last.N : output.left[i] = 0 /\ output.right[i] = 0

\* A track that stopped at the end of its samples in an earlier block is
\* passed over by a later block.
C7_Witness ==
    /\ Rendered
    /\ nBlocks = 2
    /\ "a" \in DOMAIN before.tracks
    /\ ~before.tracks["a"].loop
    /\ ~before.tracks["a"].isPlaying
    /\ before.tracks["a"].readIndex > 0
    /\ output.left = Zeros(last.N)

\* C8: right after every wraparound of a looping track its read position is
\* at least 0 and less than the length of its samples, and after any number
\* of blocks its read position is less than the length plus one step.
C8_LoopPositionBounded ==
    /\ Rendered =>
         \A key \in DOMAIN stages :
             before.tracks[key].loop =>
                 \A pos \in stages[key].wraps :
                     0 <= pos /\ pos < Length(before.tracks[key])
    /\ \A key \in DOMAIN ap.tracks :
         ap.tracks[key].loop =>
             ap.tracks[key].readIndex
                 < Length(ap.tracks[key]) + ap.tracks[key].playbackRate

C8_Witness ==
    /\ Rendered
    /\ nBlocks = MaxBlocks
    /\ \E key \in DOMAIN stages :
         /\ before.tracks[key].loop
         /\ before.tracks[key].readIndex >= Length(before.tracks[key])
         /\ \E pos \in stages[key].wraps : pos < before.tracks[key].readIndex

\* ---------------------------------------------------------------- allocation

\* C15: no process() call allocates a buffer, however many tracks play and
\* whatever the block size.
C15_ProcessNeverAllocates == Rendered => last.allocations = 0

\* ---------------------------------------------------------------- visualizer

\* C16: with T frames rendered since the window was last sized to W, exactly
\* T \div W visualizerData messages have been posted, each with one level per
\* band configured when it was posted, and between process() calls the fill
\* index is T % W, which lies in 0..W-1, whatever the block size.
C16_OneMessagePerFilledWindow ==
    LET W == ap.visualizerBufferSize IN
    /\ window.emitted = window.frames \div W
    /\ ap.visualizerSampleBufferIndex = window.frames % W
    /\ ap.visualizerSampleBufferIndex \in 0..(W - 1)
    /\ Rendered => \A i \in DOMAIN sent : sent[i] = Len(before.visualizerBands)

C16_Witness ==
    /\ Rendered
    /\ last.N > 2 * ap.visualizerBufferSize
    /\ Len(sent) = 2
    /\ sent[1] = 2
    /\ before.visualizerSampleBufferIndex > 0
    /\ ap.visualizerSampleBufferIndex > 0
    /\ window.emitted = 2

\* C17: setVisualizerBufferSize(n) with n an integer in 32..1024 sets the
\* window size to n, replaces the window by n zeros and resets the fill index
\* to 0; with any other n it changes nothing.
C17_BufferSizeAppliedIffValid ==
    (last.op = "message" /\ last.msg.type = "setVisualizerBufferSize") =>
        LET n == NumberOf(last.msg.data) IN
        IF IsInteger(last.msg.data) /\ 32 <= n /\ n <= 1024
        THEN /\ ap.visualizerBufferSize = n
             /\ ap.visualizerSampleBuffer.len = n
             /\ Silent(ap.visualizerSampleBuffer)
             /\ ap.visualizerSampleBufferIndex = 0
             /\ [ap EXCEPT !.visualizerBufferSize = before.visualizerBufferSize,
                           !.visualizerSampleBuffer = before.visualizerSampleBuffer,
                           !.visualizerSampleBufferIndex = before.visualizerSampleBufferIndex]
                  = before
        ELSE ap = before

C17_Witness ==
    /\ last.op = "message"
    /\ last.msg.type = "setVisualizerBufferSize"
    /\ before.visualizerSampleBufferIndex > 0
    /\ ~Silent(before.visualizerSampleBuffer)
    /\ ap.visualizerBufferSize = LongBlock + 8
    /\ before.visualizerBufferSize = LongBlock
    /\ ap.visualizerSampleBufferIndex = 0

\* ------------------------------------------------------------ pure functions

\* The call of fn has returned.
Returned(fn) == call.fn = fn /\ call.done

\* C18: reverb decay and diffusion are the explicit value clamped to
\* [0, 0.99] if there is one, else the named preset's value, else the default:
\* (0.84, 0.5) with no roomSize or a roomSize that names no preset, and
\* (0.90, 0.60) for hall; each of the two is resolved on its own.
C18_ReverbParamsByPriority ==
    Returned("getReverbParams") =>
        LET e == call.arg
            r == call.result
            Clamped(v) == IF v < 0 THEN 0 ELSE IF v > Frac(99, 100) THEN Frac(99, 100) ELSE v
            named == "roomSize" \in DOMAIN e
                     /\ e.roomSize \in {"small", "medium", "large", "hall",
                                         "plate", "cathedral"}
            Resolved(field, override, default, hall) ==
                /\ field \in DOMAIN r
                /\ override \in DOMAIN e => r[field] = Clamped(e[override])
                /\ (override \notin DOMAIN e /\ ~named) => r[field] = default
                /\ (override \notin DOMAIN e /\ named /\ e.roomSize = "hall")
                      => r[field] = hall
        IN  /\ Resolved("combFeedback", "reverbDecay", Frac(84, 100), Frac(90, 100))
            /\ Resolved("allpassFeedback", "reverbDiffusion", Frac(5, 10), Frac(60, 100))

\* C19: with every band gain 0 the equalizer returns the block it was given,
\* whatever the bands and the block.
C19_ZeroGainEQIsIdentity ==
    (/\ Returned("applyEQInPlace")
     /\ \A i \in DOMAIN call.arg.eqBands : call.arg.eqBands[i].gain = 0)
        => call.result = call.arg.buffer

C19_Witness ==
    /\ Returned("applyEQInPlace")
    /\ Len(call.arg.eqBands) = 2
    /\ \A i \in DOMAIN call.arg.eqBands : call.arg.eqBands[i].gain = 0
    /\ call.arg.eqBands[1].frequency # call.arg.eqBands[2].frequency
    /\ \A i \in DOMAIN call.arg.buffer : call.arg.buffer[i] # 0

\* The largest absolute value of the two channels of block b.
Peak(b) ==
    LET vals == {Abs(b.left[i]) : i \in DOMAIN b.left}
                \cup {Abs(b.right[i]) : i \in DOMAIN b.right}
    IN  CHOOSE m \in vals : \A v \in vals : v <= m

\* C20: with normalize enabled, a block of peak p > 0 has every sample of both
\* channels divided by p, so that its peak is 1, and a block of zeros is left
\* as it is.
C20_NormalizeScalesToUnitPeak ==
    (Returned("normalize") /\ call.arg.p.normalizeEnabled) =>
        LET in == call.arg
            out == call.result
            p == Peak(in)
        IN  IF p > 0
            THEN /\ \A i \in DOMAIN in.left : out.left[i] = DivT(in.left[i] * ONE, p)
                 /\ \A i \in DOMAIN in.right : out.right[i] = DivT(in.right[i] * ONE, p)
                 /\ Peak(out) = ONE
            ELSE out = in

C20_Witness ==
    /\ Returned("normalize")
    /\ call.arg.p.normalizeEnabled
    /\ call.arg.left = call.arg.right
    /\ Peak(call.arg) = 2 * ONE
    /\ call.result.left # call.arg.left
    /\ \E i \in DOMAIN call.result.left : Abs(call.result.left[i]) \in 1..(ONE - 1)

\* ------------------------------------------------------------- modulation

\* The modulation setting the block of track key was rendered with.
ModulationOf(key) ==
    SettingOf(before.modulationSettings, key, initialSettings.modulation)

\* C21: a track whose modulation depth is 0 has its block buffer left as it
\* was by the modulation stage, whatever the type and the rate.
C21_ZeroDepthIsNoEffect ==
    Rendered =>
        \A key \in DOMAIN stages :
            ModulationOf(key).depth = 0 => stages[key].modulation = stages[key].eq

\* C29: the chorus buffer of every track keeps the length it was created
\* with, B = round(0.05 * sampleRate); its write index is always in 0..B-1,
\* and with a depth in [0, 1] every index at which chorus, flanger or vibrato
\* read it is an integer in 0..B-1.
C29_ChorusIndicesInBuffer ==
    LET B == RoundDiv(sampleRate * 5, 100) IN
    /\ \A key \in DOMAIN ap.chorusBuffers :
          /\ ap.chorusBuffers[key].len = B
          /\ DOMAIN ap.chorusBuffers[key].nz \subseteq 0..(B - 1)
    /\ \A key \in DOMAIN ap.chorusWriteIndices :
          ap.chorusWriteIndices[key] \in 0..(B - 1)
    /\ Rendered =>
          \A key \in DOMAIN stages :
              (ModulationOf(key).depth >= 0 /\ ModulationOf(key).depth <= ONE)
                  => stages[key].chorusReads \subseteq 0..(B - 1)

C29_Witness ==
    /\ Rendered
    /\ "a" \in DOMAIN stages
    /\ ModulationOf("a").depth = ONE
    /\ Cardinality(stages["a"].chorusReads) > 2
    /\ before.chorusWriteIndices["a"] > ap.chorusWriteIndices["a"]
    /\ \E r \in stages["a"].chorusReads : r > LongBlock

\* C28: the stored LFO phase of every track is in [0, 2*pi) after every
\* block, whatever the rate of the modulation; a settings change leaves the
\* phase as it is, and a block starts from the phase the last one stored.
C28_PhaseStaysInTurn ==
    /\ \A key \in DOMAIN ap.modulationPhases :
          ap.modulationPhases[key] >= 0 /\ ap.modulationPhases[key] < TURN
    /\ (last.op = "message" /\ last.msg.type = "adjustModulation")
          => ap.modulationPhases = before.modulationPhases

\* ---------------------------------------------------------- track controls

\* The last step handled a message of the given type for a playing track.
Controlled(type) ==
    /\ last.op = "message"
    /\ last.msg.type = type
    /\ last.msg.key \in DOMAIN before.tracks
    /\ before.tracks[last.msg.key].isPlaying

\* C22: adjustVolume(key, volume) for a playing track changes some state of
\* the processor, by which the later blocks of the track are scaled.
C22_AdjustVolumeChangesTrack == Controlled("adjustVolume") => ap # before

\* C23: adjustPlaybackRate(key, rate) for a playing track makes rate the
\* step by which the read position of the track advances per frame.
C23_AdjustPlaybackRateApplies ==
    Controlled("adjustPlaybackRate") =>
        ap.tracks[last.msg.key].playbackRate = NumberOf(last.msg.data)

\* ---------------------------------------------------------------- the loader

\* C24: whenever loaded is true, every key of the file map has been
\* downloaded: its LOADED message was received and its data stored.
C24_LoadedMeansAllDownloaded ==
    preloader.isWorkerDone =>
        \A i \in DOMAIN preloader.fileMap :
            preloader.fileMap[i] \in preloader.audioDataMap

\* Call c of decodeAll has resolved.
Resolved(c) == preloader.decodeAll[c].state = "resolved"

\* C25 as stated: when the promise of decodeAll resolves, every key that has
\* been downloaded has a decoded buffer.
C25_AllDownloadedAreDecoded ==
    \A c \in DOMAIN preloader.decodeAll :
        Resolved(c) =>
            preloader.decodeAll[c].atResolve.downloaded
                \subseteq preloader.decodeAll[c].atResolve.decoded

\* C25: the promise of decodeAll is never rejected; when it resolves, every
\* key that was downloaded when decodeAll was called has a decoded buffer,
\* the decoded audio or a silent one, unless releaseAllResources was called in
\* between; and the call decodes no key that had a decoded buffer already.
C25_DownloadedAtCallAreDecoded ==
    /\ \A key \in DOMAIN preloader.audioBuffers :
          preloader.audioBuffers[key] \in {"decoded", "silent"}
    /\ \A c \in DOMAIN preloader.decodeAll :
          LET d == preloader.decodeAll[c] IN
          /\ d.state \in {"pending", "resolved"}
          /\ d.started = d.downloaded \ d.decoded
          /\ (Resolved(c) /\ ~d.released) => d.downloaded \subseteq d.atResolve.decoded

C25_Witness ==
    /\ Len(preloader.decodeAll) = 2
    /\ Resolved(1)
    /\ Resolved(2)
    /\ preloader.decodeAll[1].started = {"a"}
    /\ preloader.decodeAll[2].downloaded = {"a", "b"}
    /\ preloader.decodeAll[2].started = {"b"}
    /\ ~preloader.decodeAll[2].released
    /\ DOMAIN preloader.audioBuffers = {"a", "b"}
    /\ preloader.audioBuffers["a"] = "silent"
    /\ preloader.audioBuffers["b"] = "decoded"

\* ------------------------------------------------------------------ latency

\* C26: while the latency sample count has been L all along, 0 < L <=
\* maxLatencySamples, the output of frame t is the mix after the master volume
\* of frame t - L, and zero for the first L frames.
C26_OutputIsMixDelayedByL ==
    \A L \in 1..maxLatencySamples :
        (\A t \in DOMAIN timeline : timeline[t].latencySamples = L) =>
            \A t \in DOMAIN timeline :
                timeline[t].out = IF t > L THEN timeline[t - L].mixed ELSE <<0, 0>>

\* C30: for any delay or echo time above 0 ms, however large, every index at
\* which the delay and echo buffers are read or written lies in
\* [0, 2 * sampleRate): the delay offset is capped below the buffer length and
\* an echo tap whose offset is not below the buffer length is skipped.
C30_DelayEchoIndicesInBuffer ==
    LET InBuffer == 0..(MAX_DELAY_SAMPLES - 1) IN
    /\ \A key \in DOMAIN ap.delayEffectWriteIndices :
           ap.delayEffectWriteIndices[key] \in InBuffer
    /\ \A key \in DOMAIN ap.echoEffectWriteIndices :
           ap.echoEffectWriteIndices[key] \in InBuffer
    /\ \A key \in DOMAIN ap.delayEffectBuffers :
           DOMAIN ap.delayEffectBuffers[key].nz \subseteq InBuffer
    /\ \A key \in DOMAIN ap.echoEffectBuffers :
           DOMAIN ap.echoEffectBuffers[key].nz \subseteq InBuffer
    /\ \A key \in DOMAIN stages :
           "effectReads" \in DOMAIN stages[key]
               => stages[key].effectReads \cup stages[key].effectWrites
                      \subseteq InBuffer

\* A block with a delay of 5000 ms, capped to one sample below the buffer
\* length, and an echo of 1500 ms, whose second and third taps are skipped.
C30_Witness ==
    /\ "a" \in DOMAIN ap.effectsSettings
    /\ "a" \in DOMAIN stages
    /\ "effectReads" \in DOMAIN stages["a"]
    /\ Prop(ap.effectsSettings["a"], "delay", 0) = 5000
    /\ Prop(ap.effectsSettings["a"], "echo", 0) = 1500
    /\ stages["a"].effectReads = {1, 2, 500, 501}
    /\ stages["a"].effectWrites = {0, 1}

\* The input of a stage of the block just rendered: the processor as it was
\* before the block, and the buffer the stage is given.
StageInput(buffer) ==
    [p |-> before, buf |-> buffer, threw |-> FALSE, stages |-> EmptyMap]

\* Frame i of the sum of the tracks' buffers after their last stage.
RECURSIVE SumOfTracks(_, _)
SumOfTracks(keys, i) ==
    IF keys = {}
    THEN 0
    ELSE LET key == CHOOSE k \in keys : TRUE
         IN  stages[key].dynamics[i] + SumOfTracks(keys \ {key}, i)

\* C27: in every block, every playing track's buffer goes through EQ,
\* Modulation, Effects (delay, then echo, then reverb), Drive and Dynamics in
\* this order, each stage working on the output of the one before (an inactive
\* stage leaves the buffer as it is), starting from the synthesized buffer;
\* what is summed into the mix is the output of Dynamics.
C27_StagesRunInOrder ==
    last.op = "process" /\ last.result = "true" =>
        /\ \A key \in DOMAIN stages :
             LET st == stages[key]
                 effects == SettingOf(before.effectsSettings, key,
                                      initialSettings.effects)
             IN  /\ st.eq = EQStage(StageInput(st.synth), key).buf
                 /\ st.modulation = ModulationStage(StageInput(st.eq), key).buf
                 /\ st.effects = EffectsStage(StageInput(st.modulation), key).buf
                 /\ st.delay = ApplyDelay(before, st.modulation, effects, key).buf
                 /\ st.echo = ApplyEcho(before, st.delay, effects, key).buf
                 /\ st.effects = ApplyReverb(before, st.echo, effects, key).buf
                 /\ st.drive = DriveStage(StageInput(st.effects), key).buf
                 /\ st.dynamics = DynamicsStage(StageInput(st.drive), key).buf
        /\ ~before.normalizeEnabled =>
             \A i \in 1..last.N :
                 timeline[Len(timeline) - last.N + i].mixed
                     = << Mul(SumOfTracks(DOMAIN stages, i), before.masterVolume),
                          Mul(SumOfTracks(DOMAIN stages, i), before.masterVolume) >>

\* A block in which all five stages, and all three effects, changed the
\* buffer of the track.
C27_Witness ==
    /\ last.op = "process" /\ last.result = "true"
    /\ "a" \in DOMAIN stages
    /\ stages["a"].eq # stages["a"].synth
    /\ stages["a"].modulation # stages["a"].eq
    /\ stages["a"].delay # stages["a"].modulation
    /\ stages["a"].echo # stages["a"].delay
    /\ stages["a"].effects # stages["a"].echo
    /\ stages["a"].drive # stages["a"].effects
    /\ stages["a"].dynamics # stages["a"].drive

\* The last operation was a play command for key that the handler accepted.
PlayedNow(key) ==
    /\ last.op = "message"
    /\ last.msg.type = "play"
    /\ last.msg.key = key
    /\ ~IsNull(last.msg.data)
    /\ "buffer" \in DOMAIN last.msg.data

\* C31: a track's sample data is what the play command that created the track
\* supplied, and neither a render block with its in-place effect stages nor a
\* command other than a play or clear of the same key changes it.
C31_SamplesAreImmutable ==
    \A key \in DOMAIN ap.tracks :
        IF PlayedNow(key)
        THEN ap.tracks[key].data = last.msg.data.buffer
        ELSE key \in DOMAIN before.tracks
             /\ ap.tracks[key].data = before.tracks[key].data

\* A block whose effect stages changed the track's block buffer, the track
\* keeping the samples it had.
C31_Witness ==
    /\ last.op = "process"
    /\ "a" \in DOMAIN stages
    /\ "a" \in DOMAIN ap.tracks
    /\ stages["a"].dynamics # stages["a"].synth
    /\ ap.tracks["a"].data = Alternating
    /\ ap.tracks["a"].readIndex # 0

\* C32: after any sequence of commands and render blocks, every collection of
\* per-track effect state (delay, echo and chorus buffers and write indices,
\* comb and allpass buffers and indices, LFO phases) has the keys of the track
\* store, no more and no fewer.
C32_EffectStateKeysAreTrackKeys ==
    \A f \in EffectMaps : DOMAIN ap[f] = DOMAIN ap.tracks

\* A clear command has removed a track whose effect state had been used.
C32_Witness ==
    /\ last.op = "message" /\ last.msg.type = "clear"
    /\ last.msg.key \in DOMAIN before.tracks
    /\ Dirty(before, last.msg.key)
    /\ DOMAIN ap.tracks = {}
    /\ nBlocks > 0

\* The largest absolute value of the sum of the tracks' buffers over the block.
PeakOfSum ==
    LET vals == {Abs(SumOfTracks(DOMAIN stages, i)) : i \in 1..last.N}
    IN  CHOOSE m \in vals : \A v \in vals : v <= m

\* Frame i of the mix: the sum of the tracks' buffers, divided by its peak
\* when normalize is on, scaled once by the master volume.
ExpectedMix(i) ==
    LET sum == SumOfTracks(DOMAIN stages, i)
        normalized == IF before.normalizeEnabled /\ PeakOfSum > 0
                      THEN DivT(sum * ONE, PeakOfSum)
                      ELSE sum
    IN  Mul(normalized, before.masterVolume)

\* C33: every output frame has the same value on the left and on the right,
\* before and after the latency ring, and before the ring the value is the sum
\* of the tracks' processed samples (normalized when normalize is on) scaled
\* once by the master volume, whether the host supplies two output channels or
\* one.
C33_BothChannelsCarryTheMix ==
    last.op = "process" /\ last.result = "true" =>
        \A i \in 1..last.N :
            LET frame == timeline[Len(timeline) - last.N + i] IN
            /\ output.left[i] = output.right[i]
            /\ frame.mixed = <<ExpectedMix(i), ExpectedMix(i)>>

\* The messages of the run of the worker that call c of loadAll started, and
\* those of them the main thread has handled: the runs post into one channel,
\* which the main thread handles in order.
RequestOf(c) == worker.requests[preloader.loadAll[c].request]

HasType(msgs, type) == \E i \in DOMAIN msgs : msgs[i].type = type

\* C34: the promise of a call of loadAll is resolved only if its download has
\* finished (DONE posted for its request) without an ERROR, and rejected only
\* if its download has posted an ERROR; once the main thread has handled all
\* messages of a finished download the promise is settled; with an empty file
\* map it is resolved at once and nothing is sent to the worker.
C34_LoadAllSettlesWithItsDownload ==
    \A c \in DOMAIN preloader.loadAll :
        LET promise == preloader.loadAll[c] IN
        IF promise.request = 0
        THEN promise.state = "resolved" /\ worker = NewWorker
        ELSE /\ promise.state = "resolved" =>
                  /\ HasType(RequestOf(c).emitted, "DONE")
                  /\ ~HasType(RequestOf(c).emitted, "ERROR")
             /\ promise.state = "rejected" => HasType(RequestOf(c).emitted, "ERROR")
             /\ (HasType(RequestOf(c).emitted, "DONE") /\ worker.posted = <<>>)
                    => promise.state # "pending"

\* The messages of msgs that open a file: PROGRESS or ERROR.
IsFileStart(m) == m.type \in {"PROGRESS", "ERROR"}

IsProgress(m) == m.type = "PROGRESS"

\* The messages a run of the worker has posted so far are, file by file in
\* the order of the file map, PROGRESS followed at once by LOADED of the same
\* key, or one ERROR; DONE is posted once, last, after the last file; the
\* PROGRESS messages count 1, 2, ... up to at most total, the number of files.
WellFormedRun(fileMap, w) ==
    LET e == w.emitted
        starts == SelectSeq(e, IsFileStart)
        progress == SelectSeq(e, IsProgress)
    IN  /\ w.total = Len(fileMap)
        /\ Len(starts) = Len(fileMap) - Len(w.entries)
        /\ \A j \in DOMAIN starts : starts[j].payload.key = fileMap[j]
        /\ \A i \in DOMAIN e :
              /\ e[i].type \in {"PROGRESS", "LOADED", "ERROR", "DONE"}
              /\ e[i].type = "PROGRESS" =>
                    /\ i < Len(e)
                    /\ e[i + 1].type = "LOADED"
                    /\ e[i + 1].payload.key = e[i].payload.key
              /\ e[i].type = "LOADED" =>
                    /\ i > 1
                    /\ e[i - 1].type = "PROGRESS"
              /\ e[i].type = "DONE" => i = Len(e) /\ w.entries = <<>>
        /\ w.entries = <<>> => e # <<>> /\ e[Len(e)].type = "DONE"
        /\ \A j \in DOMAIN progress :
              /\ progress[j].payload.loadedCount = j
              /\ progress[j].payload.total = w.total
              /\ j <= w.total

\* C35: for one LOAD_AUDIO request the worker posts, per file in file-map
\* order, PROGRESS immediately followed by LOADED, or a single ERROR, and after
\* the last file one DONE, which is its last message; the loadedCount of the
\* PROGRESS messages is 1, 2, ... and at most total; the preloader's progress
\* stays within [0, 1] and never decreases.
C35_WorkerMessagesInOrder ==
    /\ [](/\ \A r \in DOMAIN worker.requests :
               WellFormedRun(preloader.fileMap, worker.requests[r])
          /\ preloader.loadingProgress \in 0..ONE
          /\ preloader.loadedCount <= Len(preloader.fileMap))
    /\ [][preloader'.loadingProgress >= preloader.loadingProgress]_vars

\* Of two files the first was fetched and the second failed, and the main
\* thread has handled all five messages.
C35_Witness ==
    /\ Len(worker.requests) = 1
    /\ worker.posted = <<>>
    /\ Len(worker.requests[1].emitted) = 4
    /\ worker.requests[1].emitted[1].type = "PROGRESS"
    /\ worker.requests[1].emitted[3].type = "ERROR"
    /\ worker.requests[1].emitted[4].type = "DONE"
    /\ preloader.loadingProgress = ONE \div 2
    /\ preloader.isWorkerDone

\* The collections of the processor that are keyed by track.
PerTrackFields == {"tracks"} \cup SettingsMaps \cup EffectMaps

\* All that processor p holds for the key track.
TrackState(p, track) ==
    [field \in PerTrackFields |->
       IF track \in DOMAIN p[field] THEN <<p[field][track]>> ELSE <<>>]

\* Processor p with nothing but the key track in its per-track collections.
Only(p, track) ==
    LET Kept(map) == [key \in DOMAIN map \cap {track} |-> map[key]] IN
    [p EXCEPT
       !.tracks = Kept(p.tracks),
       !.eqSettings = Kept(p.eqSettings),
       !.modulationSettings = Kept(p.modulationSettings),
       !.effectsSettings = Kept(p.effectsSettings),
       !.driveSettings = Kept(p.driveSettings),
       !.dynamicsSettings = Kept(p.dynamicsSettings),
       !.delayEffectBuffers = Kept(p.delayEffectBuffers),
       !.delayEffectWriteIndices = Kept(p.delayEffectWriteIndices),
       !.echoEffectBuffers = Kept(p.echoEffectBuffers),
       !.echoEffectWriteIndices = Kept(p.echoEffectWriteIndices),
       !.chorusBuffers = Kept(p.chorusBuffers),
       !.chorusWriteIndices = Kept(p.chorusWriteIndices),
       !.reverbCombBuffers = Kept(p.reverbCombBuffers),
       !.reverbCombIndices = Kept(p.reverbCombIndices),
       !.reverbAllpassBuffers = Kept(p.reverbAllpassBuffers),
       !.reverbAllpassIndices = Kept(p.reverbAllpassIndices),
       !.modulationPhases = Kept(p.modulationPhases)]

C37_LatencyWithinRing ==
    /\ ap.latencySamples \in 0..maxLatencySamples
    /\ \A w \in {0, maxLatencySamples - 1} :
          JsRem(w + maxLatencySamples - ap.latencySamples, maxLatencySamples)
              \in 0..(maxLatencySamples - 1)

\* C38: every non-looping track stops by itself: whenever track "a" is playing
\* with loop = false and blocks keep being rendered with no further command,
\* the track eventually has isPlaying = false.
NonLoopingPlaying ==
    /\ queue = <<>>
    /\ "a" \in DOMAIN ap.tracks
    /\ ap.tracks["a"].isPlaying
    /\ ~ap.tracks["a"].loop

TrackStopped == "a" \in DOMAIN ap.tracks /\ ~ap.tracks["a"].isPlaying

C38_NonLoopingTrackStops == NonLoopingPlaying ~> TrackStopped

\* C38 for the rates above 0: the track stops.
PositiveRate == "a" \in DOMAIN ap.tracks => ap.tracks["a"].playbackRate > 0

C38_PositiveRateTrackStops == (NonLoopingPlaying /\ PositiveRate) ~> TrackStopped

\* Processor p without the track record of key.
Forgotten(p, key) ==
    [p EXCEPT !.tracks = [track \in DOMAIN p.tracks \ {key} |-> p.tracks[track]]]

\* C39: a track whose isPlaying is false (stopped by a stop command or at the
\* end of its samples) stays so through every command and every block other
\* than a play of its key (and a clear of its key, which removes it): the flag
\* stays false, readIndex and all its effect state are as they were, and a
\* block passes it over and puts out what it would without the track.
C39_StoppedStaysStopped ==
    \A key \in DOMAIN before.tracks :
        ( /\ ~before.tracks[key].isPlaying
          /\ last.op \in {"message", "process"}
          /\ ~(last.op = "message" /\ last.msg.key = key
                  /\ (IsPlay(last.msg) \/ last.msg.type = "clear")) )
        => /\ key \in DOMAIN ap.tracks
           /\ ~ap.tracks[key].isPlaying
           /\ ap.tracks[key] = before.tracks[key]
           /\ \A field \in EffectMaps : ap[field][key] = before[field][key]
           /\ (last.op = "process" /\ last.result = "true")
                 => /\ key \notin DOMAIN stages
                    /\ output = process(Forgotten(before, key), last.N).output

\* A block passed over track "a", stopped and with effects adjusted, and
\* rendered track "b".
C39_Witness ==
    /\ last.op = "process"
    /\ "a" \in DOMAIN before.tracks
    /\ ~before.tracks["a"].isPlaying
    /\ before.effectsSettings["a"].delay = 1
    /\ DOMAIN stages = {"b"}
    /\ output.left # Zeros(last.N)
    /\ ap.tracks["a"] = before.tracks["a"]

\* C40: a control method posts a message only when the worklet node is there,
\* so none before initAudioWorklet has completed, and a play for key k only
\* when k has a decoded buffer as well; every other call posts nothing, logs,
\* and leaves the preloader, the worker and the processor as they were.
C40_PostsOnlyWhenDeliverable ==
    [][ /\ queue' # queue =>
             /\ preloader.audioWorkletNode
             /\ preloader.initAudioWorklet = "resolved"
             /\ Len(queue') = Len(queue) + 1
             /\ queue'[Len(queue')].type = "play" =>
                    /\ call'.fn = "playAudio"
                    /\ queue'[Len(queue')].key = call'.key
                    /\ call'.key \in DOMAIN preloader.audioBuffers
        /\ (call' # call /\ queue' = queue) =>
             /\ call'.logged \in {"error", "warn"}
             /\ UNCHANGED <<ap, preloader, worker, batch, nPosted>> ]_vars

\* A play of a decoded key has been posted, and a later playAudio of a key
\* without a buffer has posted nothing.
C40_Witness ==
    /\ call.fn = "playAudio"
    /\ call.logged = "warn"
    /\ call.key \notin DOMAIN preloader.audioBuffers
    /\ preloader.audioWorkletNode
    /\ Len(queue) = 1
    /\ queue[1].type = "play"
    /\ queue[1].key \in DOMAIN preloader.audioBuffers

====
